---- MODULE Spec2Model ----
(***************************************************************************)
(* Verification model of the Advent of Code 2023 solutions                 *)
(* (bdaene/advent-of-code-2023-rust): the puzzle contract and dispatcher   *)
(* of src/lib.rs, the constrained shortest-path search of day 17, the      *)
(* range remapper of day 5 and the cycle-detecting simulator of day 14.    *)
(*                                                                         *)
(* Each subsystem has its own variables and its own specification; a       *)
(* specification leaves the variables of the other subsystems at their     *)
(* idle values.                                                            *)
(***************************************************************************)
EXTENDS Integers, Sequences, FiniteSets, Bags, TLC

VARIABLES
    \* day 17: get_minimal_heat_loss called by part_1 / part_2
    grid,       \* Puzzle.grid: Vec<Vec<u32>>, as a sequence of rows
    wobbly,     \* the run range <<min, max>> of the call
    heap,       \* BinaryHeap<State>, as a bag of State records
    seen,       \* HashSet<(Position, Direction)>
    pc17,       \* "idle" | "loop" | "done"
    ret17,      \* the string part_1 / part_2 returned, <<>> before
    popped,     \* heat_loss of the states popped so far, in pop order
    \* day 5: Map::map_slices
    ranges,             \* Map.ranges, sorted by source_start by Map::parse
    slices,             \* the parameter source_slices of the call
    source_slices,      \* the local work stack (top = last element)
    destination_slices, \* the local output Vec
    current_range,      \* index into ranges of current_range, Len + 1 = None
    pc5,                \* "idle" | "loop" | "done"
    \* puzzle construction: PuzzleBase::new
    data,       \* the input text, a sequence of characters
    puzzle,     \* the constructed Puzzle, NoPuzzle before and after a panic
    pcNew,      \* "idle" | "built" | "panicked"
    \* dispatcher: get_puzzle and solve_all_puzzles
    day,        \* the argument day of a direct get_puzzle call
    day_data,   \* the argument data of that call
    boxed,      \* the Box<dyn PuzzleBase> it returned, NoPuzzle otherwise
    pcGet,      \* "idle" | "returned" | "panicked"
    all_data,   \* the argument data of solve_all_puzzles
    index,      \* the 0-based position of the iterator (enumerate)
    solved,     \* the pairs collected so far
    pcSolve,    \* "idle" | "loop" | "returned" | "panicked"
    panic,      \* the panic that ended the call, "" when none
    \* day 14: part_1 and part_2 called on one Puzzle
    lines,              \* Puzzle.lines: Vec<Vec<Rock>>
    target,             \* the number of cycles asked for (1_000_000_000)
    positions,          \* part_2: the local Vec<Position>
    known_positions,    \* part_2: the local HashMap, as a set of <<key, cycle>>
    cycle,              \* part_2: the loop counter
    cycle_length,       \* part_2: cycle - previous_cycle, 0 before detection
    pc14,               \* "idle" | "loop" | "exit"
    returned_1,         \* the strings the part_1 calls returned so far
    returned_2,         \* the strings the part_2 calls returned so far
    \* day 20: part_1 called on one Puzzle
    modules,            \* Puzzle.modules: Vec<Module>
    button_presses,     \* the number of button presses of part_1 (1000)
    states,             \* part_1: the local HashMap<&str, State>
    pulses,             \* part_1: the local VecDeque of (source, destination, high)
    highs,              \* part_1: the local count of high pulses
    lows,               \* part_1: the local count of low pulses
    press,              \* part_1: the button presses started so far
    pc20,               \* "idle" | "loop" | "rx" | "done" | "panicked"
    returned_20,        \* the strings the day 20 part_1 calls returned so far
    cycles,             \* part_2: the local HashMap<&str, Option<usize>>
    first_high,         \* the press in which each key of cycles first sent high
    ret20,              \* the String day 20 part_2 returned, <<>> before
    \* day 15: part_1 and part_2 called on one Puzzle
    steps,              \* Puzzle.steps: Vec<String>
    boxes,              \* part_2: the local Vec<Box>
    step_index,         \* part_2: the steps for_each has handled
    pc15,               \* "idle" | "steps" | "panicked"
    returned_15_1,      \* the strings the day 15 part_1 calls returned so far
    returned_15_2,      \* the strings the day 15 part_2 calls returned so far
    \* day 5: part_2 folding map_slices over the maps
    seeds,              \* Puzzle.seeds: Vec<u32>
    maps,               \* Puzzle.maps: Vec<Map>
    stage,              \* part_2: the maps the fold has applied or is applying
    pcPart5,            \* "idle" | "fold" | "done" | "panicked"
    ret5,               \* the String part_2 returned
    \* day 19: part_2
    workflows,          \* Puzzle.workflows: HashMap<String, Workflow>
    current_ranges,     \* part_2: the local Vec of (destination, PartRange)
    total,              \* part_2: the local u64 total
    pc19,               \* "idle" | "loop" | "done" | "panicked"
    ret19,              \* the String part_2 returned
    \* day 18: compute_coverage
    instructions,       \* the parameter instructions: Vec<Instruction>
    vertices,           \* the local vertices, sorted by (row, col)
    vertex_index,       \* the vertices the for loop has handled
    cols,               \* the local BTreeSet of columns
    last_vertex,        \* the local last_vertex
    area,               \* the local area
    pc18,               \* "idle" | "loop" | "done"
    ret18,              \* the String part_1 returned
    \* day 6: part_1
    times,              \* Puzzle.times: Vec<u32>
    distances,          \* Puzzle.distances: Vec<u32>
    race,               \* part_1: the pairs the iterator has yielded
    product,            \* part_1: the running product of product::<u32>
    pc6,                \* "idle" | "races" | "done" | "panicked"
    ret6                \* the String part_1 returned

vars17 == <<grid, wobbly, heap, seen, pc17, ret17, popped>>

vars05 == <<ranges, slices, source_slices, destination_slices, current_range, pc5>>

varsNew == <<data, puzzle, pcNew>>

varsGet == <<day, day_data, boxed, pcGet, all_data, index, solved, pcSolve, panic>>

vars14 ==
    <<lines, target, positions, known_positions, cycle, cycle_length, pc14,
      returned_1, returned_2>>

varsRx == <<cycles, first_high, ret20>>

vars20 ==
    <<modules, button_presses, states, pulses, highs, lows, press, pc20, returned_20,
      varsRx>>

vars15 == <<steps, boxes, step_index, pc15, returned_15_1, returned_15_2>>

varsPart05 == <<seeds, maps, stage, pcPart5, ret5>>

vars19 == <<workflows, current_ranges, total, pc19, ret19>>

vars18 ==
    <<instructions, vertices, vertex_index, cols, last_vertex, area, pc18, ret18>>

vars06 == <<times, distances, race, product, pc6, ret6>>

vars ==
    <<vars17, vars05, varsNew, varsGet, vars14, vars20, vars15, varsPart05,
      vars19, vars18, vars06>>

\* what each subsystem leaves alone
others17 ==
    <<vars05, varsNew, varsGet, vars14, vars20, vars15, varsPart05,
      vars19, vars18, vars06>>

others05 ==
    <<vars17, varsNew, varsGet, vars14, vars20, vars15, varsPart05,
      vars19, vars18, vars06>>

othersNew ==
    <<vars17, vars05, varsGet, vars14, vars20, vars15, varsPart05,
      vars19, vars18, vars06>>

othersGet ==
    <<vars17, vars05, varsNew, vars14, vars20, vars15, varsPart05,
      vars19, vars18, vars06>>

others14 ==
    <<vars17, vars05, varsNew, varsGet, vars20, vars15, varsPart05,
      vars19, vars18, vars06>>

others20 ==
    <<vars17, vars05, varsNew, varsGet, vars14, vars15, varsPart05,
      vars19, vars18, vars06>>

others15 ==
    <<vars17, vars05, varsNew, varsGet, vars14, vars20, varsPart05,
      vars19, vars18, vars06>>

others19 ==
    <<vars17, vars05, varsNew, varsGet, vars14, vars20, vars15, varsPart05,
      vars18, vars06>>

others18 ==
    <<vars17, vars05, varsNew, varsGet, vars14, vars20, vars15, varsPart05,
      vars19, vars06>>

others06 ==
    <<vars17, vars05, varsNew, varsGet, vars14, vars20, vars15, varsPart05,
      vars19, vars18>>

othersPart05 ==
    <<vars17, varsNew, varsGet, vars14, vars20, vars15,
      vars19, vars18, vars06>>

----------------------------------------------------------------------------
(* Helpers *)

Min2(a, b) == IF a <= b THEN a ELSE b

SetMin(S) == CHOOSE x \in S : \A y \in S : x <= y

RECURSIVE SeqSum(_)
SeqSum(s) == IF s = <<>> THEN 0 ELSE Head(s) + SeqSum(Tail(s))

DigitChar(d) == <<"0", "1", "2", "3", "4", "5", "6", "7", "8", "9">>[d + 1]

\* u32/usize::to_string: the decimal digits, most significant first.
RECURSIVE to_string(_)
to_string(n) ==
    IF n < 10 THEN <<DigitChar(n)>>
    ELSE Append(to_string(n \div 10), DigitChar(n % 10))

\* u32::MAX.to_string(): 4294967295 exceeds the integers TLC computes with,
\* so the value is kept as the decimal string the code formats it to.
U32MaxString == <<"4", "2", "9", "4", "9", "6", "7", "2", "9", "5">>

----------------------------------------------------------------------------
(* Bounds of the day 17 model *)

MaxRows == 3
MaxCols == 3
MaxWeight == 1
MaxDigit == 2

Weights == 0 .. MaxWeight

----------------------------------------------------------------------------
(* Day 17 *)

Directions == {"Up", "Down", "Left", "Right"}

Height(g) == Len(g)
Width(g) == Len(g[1])

\* grid[position.row][position.col], rows and columns counted from 0
Cell(g, position) == g[position.row + 1][position.col + 1]

\* Position::get_at: <<>> is None, <<p>> is Some(p)
GetAt(position, distance, direction, height, width) ==
    CASE direction = "Up" ->
            IF position.row - distance >= 0
            THEN <<[row |-> position.row - distance, col |-> position.col]>>
            ELSE <<>>
      [] direction = "Left" ->
            IF position.col - distance >= 0
            THEN <<[row |-> position.row, col |-> position.col - distance]>>
            ELSE <<>>
      [] direction = "Down" ->
            IF position.row + distance < height
            THEN <<[row |-> position.row + distance, col |-> position.col]>>
            ELSE <<>>
      [] direction = "Right" ->
            IF position.col + distance < width
            THEN <<[row |-> position.row, col |-> position.col + distance]>>
            ELSE <<>>

\* get_turns keeping the direction instead of turning
GetTurnsAhead(direction) == <<direction, direction>>

\* Direction::get_turns
GetTurns(direction) ==
    CASE direction = "Right" -> <<"Up", "Down">>
      [] direction = "Up" -> <<"Left", "Right">>
      [] direction = "Left" -> <<"Down", "Up">>
      [] direction = "Down" -> <<"Right", "Left">>

\* HeatAlong leaving out the cells it passes
HeatAlongNothing(g, position, direction, from, to, acc) == acc

\* The fold of get_next_states: heat_loss after the cells at distances
\* from..to along the direction, the cells outside the grid skipped
\* (filter_map).
RECURSIVE HeatAlong(_, _, _, _, _, _)
HeatAlong(g, position, direction, from, to, acc) ==
    IF from > to THEN acc
    ELSE LET at == GetAt(position, from, direction, Height(g), Width(g))
         IN  HeatAlong(g, position, direction, from + 1, to,
                       IF at = <<>> THEN acc ELSE acc + Cell(g, at[1]))

\* State::get_next_states, as the sequence (Vec) it collects
RECURSIVE NextStatesFrom(_, _, _, _, _)
NextStatesFrom(g, state, distance, max, heat_loss) ==
    IF distance > max THEN <<>>
    ELSE LET at == GetAt(state.position, distance, state.direction,
                         Height(g), Width(g))
         IN  IF at = <<>>
             THEN NextStatesFrom(g, state, distance + 1, max, heat_loss)
             ELSE LET h == heat_loss + Cell(g, at[1])
                      turns == GetTurns(state.direction)
                  IN  <<[position |-> at[1], direction |-> turns[1], heat_loss |-> h],
                        [position |-> at[1], direction |-> turns[2], heat_loss |-> h]>>
                      \o NextStatesFrom(g, state, distance + 1, max, h)

GetNextStates(g, state, w) ==
    NextStatesFrom(g, state, w[1], w[2],
                   HeatAlong(g, state.position, state.direction, 1, w[1] - 1,
                             state.heat_loss))

\* impl Ord for State: -1 Less, 0 Equal, 1 Greater
Compare(a, b) == IF a < b THEN -1 ELSE IF a = b THEN 0 ELSE 1

StateCmp(self, other) ==
    LET first == Compare(self.heat_loss + other.position.row + other.position.col,
                         other.heat_loss + self.position.row + self.position.col)
        then_with == IF first # 0 THEN first
                     ELSE Compare(self.heat_loss, other.heat_loss)
    IN  0 - then_with

\* BinaryHeap::pop returns a greatest element; which one among elements that
\* compare Equal is left to the heap's layout, so any of them may come out.
Greatest(h) ==
    {s \in BagToSet(h) : \A t \in BagToSet(h) : StateCmp(s, t) >= 0}

SeqToBag(s) ==
    LET Count(x) == Cardinality({i \in 1 .. Len(s) : s[i] = x})
    IN  [x \in {s[i] : i \in 1 .. Len(s)} |-> Count(x)]

InitialHeap ==
    SeqToBag(<<[position |-> [row |-> 0, col |-> 0], heat_loss |-> 0, direction |-> "Right"],
               [position |-> [row |-> 0, col |-> 0], heat_loss |-> 0, direction |-> "Down"]>>)

IsTarget(g, position) ==
    position.row = Height(g) - 1 /\ position.col = Width(g) - 1

Grids ==
    UNION {[1 .. h -> [1 .. w -> Weights]] : h \in 1 .. MaxRows, w \in 1 .. MaxCols}

Idle17 ==
    /\ grid = <<>>
    /\ wobbly = <<0, 0>>
    /\ heap = EmptyBag
    /\ seen = {}
    /\ pc17 = "off"
    /\ ret17 = <<>>
    /\ popped = <<>>

IdleMapSlices ==
    /\ ranges = <<>>
    /\ slices = <<>>
    /\ source_slices = <<>>
    /\ destination_slices = <<>>
    /\ current_range = 0
    /\ pc5 = "off"

IdlePart05 ==
    /\ seeds = <<>>
    /\ maps = <<>>
    /\ stage = 0
    /\ pcPart5 = "off"
    /\ ret5 = <<>>

Idle05 == IdleMapSlices /\ IdlePart05

NoPuzzle == [none |-> TRUE]

IdleNew ==
    /\ data = <<>>
    /\ puzzle = NoPuzzle
    /\ pcNew = "off"

IdleGet ==
    /\ day = 0
    /\ day_data = <<>>
    /\ boxed = NoPuzzle
    /\ pcGet = "off"
    /\ all_data = <<>>
    /\ index = 0
    /\ solved = <<>>
    /\ pcSolve = "off"
    /\ panic = ""

Idle14 ==
    /\ lines = <<>>
    /\ target = 0
    /\ positions = <<>>
    /\ known_positions = {}
    /\ cycle = 0
    /\ cycle_length = 0
    /\ pc14 = "off"
    /\ returned_1 = {}
    /\ returned_2 = {}

Idle20 ==
    /\ modules = <<>>
    /\ button_presses = 0
    /\ states = <<>>
    /\ pulses = <<>>
    /\ highs = 0
    /\ lows = 0
    /\ press = 0
    /\ pc20 = "off"
    /\ returned_20 = {}
    /\ cycles = <<>>
    /\ first_high = <<>>
    /\ ret20 = <<>>

Idle15 ==
    /\ steps = <<>>
    /\ boxes = <<>>
    /\ step_index = 0
    /\ pc15 = "off"
    /\ returned_15_1 = {}
    /\ returned_15_2 = {}

Idle19 ==
    /\ workflows = <<>>
    /\ current_ranges = <<>>
    /\ total = [words |-> 0, units |-> 0]
    /\ pc19 = "off"
    /\ ret19 = <<>>

Idle18 ==
    /\ instructions = <<>>
    /\ vertices = <<>>
    /\ vertex_index = 0
    /\ cols = {}
    /\ last_vertex = 0
    /\ area = 0
    /\ pc18 = "off"
    /\ ret18 = <<>>

Idle06 ==
    /\ times = <<>>
    /\ distances = <<>>
    /\ race = 0
    /\ product = 1
    /\ pc6 = "off"
    /\ ret6 = <<>>

Start17 ==
    /\ grid \in Grids
    /\ wobbly = <<0, 0>>
    /\ heap = EmptyBag
    /\ seen = {}
    /\ pc17 = "idle"
    /\ ret17 = <<>>
    /\ popped = <<>>

\* part_1: get_minimal_heat_loss(&self.grid, &(1..=3)), up to the loop
Part1_17 ==
    /\ pc17 = "idle"
    /\ wobbly' = <<1, 3>>
    /\ heap' = InitialHeap
    /\ seen' = {}
    /\ pc17' = "loop"
    /\ UNCHANGED <<grid, ret17, popped>>
    /\ UNCHANGED others17

\* part_2: get_minimal_heat_loss(&self.grid, &(4..=10)), up to the loop
Part2_17 ==
    /\ pc17 = "idle"
    /\ wobbly' = <<4, 10>>
    /\ heap' = InitialHeap
    /\ seen' = {}
    /\ pc17' = "loop"
    /\ UNCHANGED <<grid, ret17, popped>>
    /\ UNCHANGED others17

\* one iteration of `while let Some(state) = heap.pop()`
PopSeenAmong(candidates) ==
    /\ pc17 = "loop"
    /\ \E state \in candidates :
        /\ <<state.position, state.direction>> \in seen
        /\ heap' = heap (-) SetToBag({state})
        /\ popped' = Append(popped, state.heat_loss)
    /\ UNCHANGED <<grid, wobbly, seen, pc17, ret17>>
    /\ UNCHANGED others17

PopTargetAmong(candidates) ==
    /\ pc17 = "loop"
    /\ \E state \in candidates :
        /\ <<state.position, state.direction>> \notin seen
        /\ IsTarget(grid, state.position)
        /\ heap' = heap (-) SetToBag({state})
        /\ seen' = seen \cup {<<state.position, state.direction>>}
        /\ popped' = Append(popped, state.heat_loss)
        /\ ret17' = to_string(state.heat_loss)
        /\ pc17' = "done"
    /\ UNCHANGED <<grid, wobbly>>
    /\ UNCHANGED others17

PopExpandAmong(candidates) ==
    /\ pc17 = "loop"
    /\ \E state \in candidates :
        /\ <<state.position, state.direction>> \notin seen
        /\ ~IsTarget(grid, state.position)
        /\ heap' = (heap (-) SetToBag({state}))
                   (+) SeqToBag(GetNextStates(grid, state, wobbly))
        /\ seen' = seen \cup {<<state.position, state.direction>>}
        /\ popped' = Append(popped, state.heat_loss)
    /\ UNCHANGED <<grid, wobbly, pc17, ret17>>
    /\ UNCHANGED others17

\* the three outcomes of an iteration, for any state BinaryHeap::pop may return
PopSeen == PopSeenAmong(Greatest(heap))

PopTarget == PopTargetAmong(Greatest(heap))

PopExpand == PopExpandAmong(Greatest(heap))

\* the loop ends with the heap empty: `u32::MAX`, which part_N formats
HeapEmpty ==
    /\ pc17 = "loop"
    /\ heap = EmptyBag
    /\ ret17' = U32MaxString
    /\ pc17' = "done"
    /\ UNCHANGED <<grid, wobbly, heap, seen, popped>>
    /\ UNCHANGED others17

Init17 == Start17 /\ Idle05 /\ IdleNew /\ IdleGet /\ Idle14 /\ Idle20 /\ Idle15
    /\ Idle19 /\ Idle18 /\ Idle06

Next17 ==
    \/ Part1_17
    \/ Part2_17
    \/ PopSeen
    \/ PopTarget
    \/ PopExpand
    \/ HeapEmpty

Spec17 == Init17 /\ [][Next17]_vars

\* The same runs on grids whose weights are the digits 1 .. MaxDigit (no 0)
GridsOver(weights) ==
    UNION {[1 .. h -> [1 .. w -> weights]] : h \in 1 .. MaxRows, w \in 1 .. MaxCols}

InitDigits17 ==
    /\ grid \in GridsOver(1 .. MaxDigit)
    /\ wobbly = <<0, 0>>
    /\ heap = EmptyBag
    /\ seen = {}
    /\ pc17 = "idle"
    /\ ret17 = <<>>
    /\ popped = <<>>
    /\ Idle05 /\ IdleNew /\ IdleGet /\ Idle14 /\ Idle20 /\ Idle15
    /\ Idle19 /\ Idle18 /\ Idle06

SpecDigits17 == InitDigits17 /\ [][Next17]_vars

\* the grid of data/examples/day_17.txt, as the test `new` lists it
ExampleGrid17 ==
    << <<2, 4, 1, 3, 4, 3, 2, 3, 1, 1, 3, 2, 3>>,
       <<3, 2, 1, 5, 4, 5, 3, 5, 3, 5, 6, 2, 3>>,
       <<3, 2, 5, 5, 2, 4, 5, 6, 5, 4, 2, 5, 4>>,
       <<3, 4, 4, 6, 5, 8, 5, 8, 4, 5, 4, 5, 2>>,
       <<4, 5, 4, 6, 6, 5, 7, 8, 6, 7, 5, 3, 6>>,
       <<1, 4, 3, 8, 5, 9, 8, 7, 9, 8, 4, 5, 4>>,
       <<4, 4, 5, 7, 8, 7, 6, 9, 8, 7, 7, 6, 6>>,
       <<3, 6, 3, 7, 8, 7, 7, 9, 7, 9, 6, 5, 3>>,
       <<4, 6, 5, 4, 9, 6, 7, 9, 8, 6, 8, 8, 7>>,
       <<4, 5, 6, 4, 6, 7, 9, 9, 8, 6, 4, 5, 3>>,
       <<1, 2, 2, 4, 6, 8, 6, 8, 6, 5, 5, 6, 3>>,
       <<2, 5, 4, 6, 5, 4, 8, 8, 8, 7, 7, 3, 5>>,
       <<4, 3, 2, 2, 6, 7, 4, 6, 5, 5, 5, 3, 3>> >>

\* BinaryHeap::pop with a layout that settles every tie: of the states that
\* compare Equal to a greatest one, one fixed state comes out
FirstGreatest(h) ==
    IF h = EmptyBag THEN {}
    ELSE {CHOOSE s \in BagToSet(h) : \A t \in BagToSet(h) : StateCmp(s, t) >= 0}

PopSeenFirst == PopSeenAmong(FirstGreatest(heap))

PopTargetFirst == PopTargetAmong(FirstGreatest(heap))

PopExpandFirst == PopExpandAmong(FirstGreatest(heap))

InitExample17 ==
    /\ grid = ExampleGrid17
    /\ wobbly = <<0, 0>>
    /\ heap = EmptyBag
    /\ seen = {}
    /\ pc17 = "idle"
    /\ ret17 = <<>>
    /\ popped = <<>>
    /\ Idle05 /\ IdleNew /\ IdleGet /\ Idle14 /\ Idle20 /\ Idle15
    /\ Idle19 /\ Idle18 /\ Idle06

\* part_1 and part_2 on the example grid; its heap never runs empty
NextExample17 ==
    \/ Part1_17
    \/ Part2_17
    \/ PopSeenFirst
    \/ PopTargetFirst
    \/ PopExpandFirst

SpecExample17 == InitExample17 /\ [][NextExample17]_vars

----------------------------------------------------------------------------
(* Day 17: the legal run-sequences, stated on their own *)

\* A node of the reference: a cell and the axis the next run must take.
Delta(direction) ==
    CASE direction = "Up" -> <<-1, 0>>
      [] direction = "Down" -> <<1, 0>>
      [] direction = "Left" -> <<0, -1>>
      [] direction = "Right" -> <<0, 1>>

AxisDirections(axis) == IF axis = "H" THEN {"Left", "Right"} ELSE {"Up", "Down"}

OtherAxis(axis) == IF axis = "H" THEN "V" ELSE "H"

InGrid(g, row, col) ==
    /\ 0 <= row /\ row < Len(g)
    /\ 0 <= col /\ col < Len(g[1])

\* the weights of the cells entered by a run of k cells
RECURSIVE RunCost(_, _, _, _, _)
RunCost(g, row, col, direction, k) ==
    IF k = 0 THEN 0
    ELSE g[row + k * Delta(direction)[1] + 1][col + k * Delta(direction)[2] + 1]
         + RunCost(g, row, col, direction, k - 1)

\* the nodes one legal run away from node n, with the cost accumulated
LegalRuns(g, w, n) ==
    {[row |-> n.row + k * Delta(d)[1], col |-> n.col + k * Delta(d)[2],
      axis |-> OtherAxis(n.axis), cost |-> n.cost + RunCost(g, n.row, n.col, d, k)] :
        <<d, k>> \in {x \in AxisDirections(n.axis) \X (w[1] .. w[2]) :
                        InGrid(g, n.row + x[2] * Delta(x[1])[1],
                                  n.col + x[2] * Delta(x[1])[2])}}

Cheapest(T) ==
    {t \in T : \A u \in T :
        (u.row = t.row /\ u.col = t.col /\ u.axis = t.axis) => t.cost <= u.cost}

RECURSIVE RunClosure(_, _, _)
RunClosure(g, w, S) ==
    LET T == Cheapest(S \cup UNION {LegalRuns(g, w, n) : n \in S})
    IN  IF T = S THEN S ELSE RunClosure(g, w, T)

\* the cheapest cost of every node some legal run-sequence reaches
Reached(g, w) ==
    RunClosure(g, w, {[row |-> 0, col |-> 0, axis |-> "H", cost |-> 0],
                      [row |-> 0, col |-> 0, axis |-> "V", cost |-> 0]})

AtTarget(g, w) ==
    {n \in Reached(g, w) : n.row = Len(g) - 1 /\ n.col = Len(g[1]) - 1}

TargetReachable(g, w) == AtTarget(g, w) # {}

MinimalCost(g, w) == SetMin({n.cost : n \in AtTarget(g, w)})

TargetPopped ==
    \E e \in seen : IsTarget(grid, e[1])

----------------------------------------------------------------------------
(* Day 17: claims *)

\* The loop of get_minimal_heat_loss run to its end from heap h and set s:
\* TRUE when some order of popping the states that compare Equal returns v.
RECURSIVE CanReturn(_, _, _, _, _)
CanReturn(g, w, h, s, v) ==
    /\ h # EmptyBag
    /\ \E state \in Greatest(h) :
        LET rest == h (-) SetToBag({state})
            key == <<state.position, state.direction>>
        IN  IF key \in s THEN CanReturn(g, w, rest, s, v)
            ELSE IF IsTarget(g, state.position) THEN state.heat_loss = v
            ELSE CanReturn(g, w, rest (+) SeqToBag(GetNextStates(g, state, w)),
                           s \cup {key}, v)

\* C1 (as claimed): the value get_minimal_heat_loss returns is the minimum
\* accumulated cost over all legal run-sequences from the top-left to the
\* bottom-right cell, for every grid of weights 0..9 and both run ranges.
\* Ord leaves open which of several Equal states the heap pops first, so a
\* returned value is held against the claim only on a grid where no such
\* order returns the minimum.
C1_ReturnsMinimum ==
    (pc17 = "done" /\ TargetReachable(grid, wobbly))
        => \/ ret17 = to_string(MinimalCost(grid, wobbly))
           \/ CanReturn(grid, wobbly, InitialHeap, {}, MinimalCost(grid, wobbly))

\* C9 (as claimed): when the heap empties without the bottom-right cell ever
\* being popped, the call ends in a fatal failure: part_1 / part_2 return no
\* cost string.
C9_EmptyHeapIsFatal ==
    (pc17 = "done" /\ ~TargetPopped) => ret17 = <<>>

\* C21 (as claimed): the priority queue is keyed by accumulated cost: in
\* every run of get_minimal_heat_loss the states are popped in non-decreasing
\* order of heat_loss, no state is popped after a state with a strictly
\* larger heat_loss has already been popped.
C21_PopsNonDecreasing ==
    \A i, j \in 1 .. Len(popped) : i < j => popped[i] <= popped[j]

\* The cell k steps from a position along a direction, inside the grid or not
Ahead(position, direction, k) ==
    CASE direction = "Up" -> [row |-> position.row - k, col |-> position.col]
      [] direction = "Down" -> [row |-> position.row + k, col |-> position.col]
      [] direction = "Left" -> [row |-> position.row, col |-> position.col - k]
      [] direction = "Right" -> [row |-> position.row, col |-> position.col + k]

Inside(g, position) ==
    /\ position.row \in 0 .. Height(g) - 1
    /\ position.col \in 0 .. Width(g) - 1

Perpendicular(direction) ==
    IF direction \in {"Up", "Down"} THEN {"Left", "Right"} ELSE {"Up", "Down"}

\* the weights of the cells at distances 1..=k, destination included
RECURSIVE WeightsAhead(_, _, _, _)
WeightsAhead(g, position, direction, k) ==
    IF k = 0 THEN 0
    ELSE WeightsAhead(g, position, direction, k - 1)
         + Cell(g, Ahead(position, direction, k))

ReachableRuns(g, state, w) ==
    {k \in w[1] .. w[2] : Inside(g, Ahead(state.position, state.direction, k))}

ClaimedNextStates(g, state, w) ==
    {[position |-> Ahead(state.position, state.direction, k),
      direction |-> t,
      heat_loss |-> state.heat_loss
                    + WeightsAhead(g, state.position, state.direction, k)] :
        k \in ReachableRuns(g, state, w), t \in Perpendicular(state.direction)}

\* C22: get_next_states(grid, min..=max) on a state at p moving in d returns
\* exactly one state per pair (k, t), k in min..=max with the cell k steps
\* from p along d inside the grid and t perpendicular to d; that state is at
\* that cell, has direction t and heat_loss the current one plus the weights
\* of the cells at distances 1..=k; nothing is returned when the cell at
\* distance min is outside the grid.
C22_NextStates ==
    pc17 = "loop" =>
        \A state \in BagToSet(heap) :
            LET next == GetNextStates(grid, state, wobbly)
                claimed == ClaimedNextStates(grid, state, wobbly)
            IN  /\ {next[i] : i \in 1 .. Len(next)} = claimed
                /\ Len(next) = 2 * Cardinality(ReachableRuns(grid, state, wobbly))
                /\ \A i, j \in 1 .. Len(next) : i # j => next[i] # next[j]
                /\ ~Inside(grid, Ahead(state.position, state.direction, wobbly[1]))
                        => next = <<>>

\* C22 witness: in part_2 a state away from the origin, with heat lost, for
\* which some but not all of the runs 4..=10 stay inside the grid
C22_Witness ==
    /\ pc17 = "loop"
    /\ wobbly = <<4, 10>>
    /\ \E state \in BagToSet(heap) :
        /\ state.heat_loss > 0
        /\ state.position # [row |-> 0, col |-> 0]
        /\ ReachableRuns(grid, state, wobbly) # {}
        /\ ReachableRuns(grid, state, wobbly) # wobbly[1] .. wobbly[2]
        /\ GetNextStates(grid, state, wobbly) # <<>>

\* C13: on the 13x13 example grid part_1 (runs of 1..=3 cells) returns
\* "102" and part_2 (runs of 4..=10 cells) returns "94".
C13_ExampleResults ==
    (pc17 = "done" /\ grid = ExampleGrid17)
        => ret17 = IF wobbly = <<1, 3>> THEN <<"1", "0", "2">> ELSE <<"9", "4">>

\* C13 witness: part_1 has returned "102" on the example grid, from the pop
\* of a state at the last cell.
C13_Witness ==
    /\ pc17 = "done"
    /\ grid = ExampleGrid17
    /\ wobbly = <<1, 3>>
    /\ TargetPopped
    /\ ret17 = <<"1", "0", "2">>

----------------------------------------------------------------------------
(* Bounds of the day 5 model *)

MaxValue == 3       \* largest source_start and slice start
MaxLength == 2      \* largest Range.length and Slice.length
MaxRules == 2       \* most ranges of a Map
MaxSlices == 2      \* most slices given to map_slices
MaxSeed == 2        \* largest seed start and source_start of the small puzzles
MaxMaps == 2        \* most maps of a small puzzle

----------------------------------------------------------------------------
(* Day 5 *)

\* destination_start: inside the source values, or beyond all of them
Destinations == {0, MaxValue + MaxLength + 1}

RangeValues ==
    [destination_start : Destinations, source_start : 0 .. MaxValue,
     length : 0 .. MaxLength]

SliceValues == [start : 0 .. MaxValue, length : 0 .. MaxLength]

SeqsUpTo(S, n) == UNION {[1 .. k -> S] : k \in 0 .. n}

\* Vec::sort_by_key (a stable sort), by insertion; the key is a field
RECURSIVE InsertByKey(_, _, _)
InsertByKey(x, s, key) ==
    IF s = <<>> THEN <<x>>
    ELSE IF x[key] < Head(s)[key] THEN <<x>> \o s
    ELSE <<Head(s)>> \o InsertByKey(x, Tail(s), key)

RECURSIVE SortByKey(_, _)
SortByKey(s, key) ==
    IF s = <<>> THEN <<>>
    ELSE InsertByKey(s[Len(s)], SortByKey(SubSeq(s, 1, Len(s) - 1), key), key)

Reverse(s) == [i \in 1 .. Len(s) |-> s[Len(s) + 1 - i]]

\* Map::parse: ranges.sort_by_key(|range| range.source_start)
SortedRanges(rs) == SortByKey(rs, "source_start")

\* Map::map
RECURSIVE MapValue(_, _)
MapValue(rs, source) ==
    IF rs = <<>> THEN source
    ELSE LET range == Head(rs)
         IN  IF range.source_start <= source
                /\ source - range.source_start < range.length
             THEN source - range.source_start + range.destination_start
             ELSE MapValue(Tail(rs), source)

\* the cursor left on the current range whatever the slice
AdvanceRangeStays(rs, i, slice) == i

\* the inner `while let Some(range) = current_range` of map_slices: the
\* cursor after skipping the ranges that end at or before slice.start
RECURSIVE AdvanceRange(_, _, _)
AdvanceRange(rs, i, slice) ==
    IF i > Len(rs) THEN i
    ELSE IF slice.start < rs[i].source_start
            \/ slice.start - rs[i].source_start < rs[i].length
         THEN i
         ELSE AdvanceRange(rs, i + 1, slice)

Pop(stack) == SubSeq(stack, 1, Len(stack) - 1)

Top(stack) == stack[Len(stack)]

Start05 ==
    /\ ranges \in {SortedRanges(rs) : rs \in SeqsUpTo(RangeValues, MaxRules)}
    /\ slices \in SeqsUpTo(SliceValues, MaxSlices)
    /\ source_slices = <<>>
    /\ destination_slices = <<>>
    /\ current_range = 0
    /\ pc5 = "idle"

\* map_slices up to its outer loop: copy, sort by start, reverse, and
\* take the first range
MapSlicesEnter ==
    /\ pc5 = "idle"
    /\ source_slices' = Reverse(SortByKey(slices, "start"))
    /\ destination_slices' = <<>>
    /\ current_range' = 1
    /\ pc5' = "loop"
    /\ UNCHANGED <<ranges, slices>>
    /\ UNCHANGED others05

\* one iteration of `while let Some(slice) = source_slices.pop()`, with no
\* range left: the slice is emitted as it is
EmitUnmapped ==
    /\ pc5 = "loop"
    /\ source_slices # <<>>
    /\ LET slice == Top(source_slices)
           i == AdvanceRange(ranges, current_range, slice)
       IN  /\ i > Len(ranges)
           /\ current_range' = i
           /\ source_slices' = Pop(source_slices)
           /\ destination_slices' =
                Append(destination_slices,
                       [start |-> slice.start, length |-> slice.length])
    /\ UNCHANGED <<ranges, slices, pc5>>
    /\ UNCHANGED others05

\* the slice starts before the current range: its prefix is emitted
\* unchanged and the rest pushed back
EmitPrefix ==
    /\ pc5 = "loop"
    /\ source_slices # <<>>
    /\ LET slice == Top(source_slices)
           i == AdvanceRange(ranges, current_range, slice)
       IN  /\ i <= Len(ranges)
           /\ slice.start < ranges[i].source_start
           /\ current_range' = i
           /\ LET non_matching_length ==
                    Min2(slice.length, ranges[i].source_start - slice.start)
              IN  /\ destination_slices' =
                        Append(destination_slices,
                               [start |-> slice.start,
                                length |-> non_matching_length])
                  /\ source_slices' =
                        IF slice.length > non_matching_length
                        THEN Append(Pop(source_slices),
                                    [start |-> slice.start + non_matching_length,
                                     length |-> slice.length - non_matching_length])
                        ELSE Pop(source_slices)
    /\ UNCHANGED <<ranges, slices, pc5>>
    /\ UNCHANGED others05

\* the slice starts inside the current range: the covered part is emitted
\* shifted and the rest pushed back
EmitMapped ==
    /\ pc5 = "loop"
    /\ source_slices # <<>>
    /\ LET slice == Top(source_slices)
           i == AdvanceRange(ranges, current_range, slice)
       IN  /\ i <= Len(ranges)
           /\ ~(slice.start < ranges[i].source_start)
           /\ current_range' = i
           /\ LET matching_length ==
                    Min2(slice.length,
                         ranges[i].length - (slice.start - ranges[i].source_start))
              IN  /\ destination_slices' =
                        Append(destination_slices,
                               [start |-> ranges[i].destination_start
                                          + (slice.start - ranges[i].source_start),
                                length |-> matching_length])
                  /\ source_slices' =
                        IF slice.length > matching_length
                        THEN Append(Pop(source_slices),
                                    [start |-> slice.start + matching_length,
                                     length |-> slice.length - matching_length])
                        ELSE Pop(source_slices)
    /\ UNCHANGED <<ranges, slices, pc5>>
    /\ UNCHANGED others05

\* the work stack is empty: map_slices returns destination_slices
MapSlicesReturn ==
    /\ pc5 = "loop"
    /\ source_slices = <<>>
    /\ pc5' = "done"
    /\ UNCHANGED <<ranges, slices, source_slices, destination_slices, current_range>>
    /\ UNCHANGED others05

Init05 == Start05 /\ IdlePart05 /\ Idle17 /\ IdleNew /\ IdleGet /\ Idle14 /\ Idle20 /\ Idle15
    /\ Idle19 /\ Idle18 /\ Idle06

Next05 ==
    \/ MapSlicesEnter
    \/ EmitUnmapped
    \/ EmitPrefix
    \/ EmitMapped
    \/ MapSlicesReturn

Spec05 == Init05 /\ [][Next05]_vars

\* the loop of map_slices as a function of its locals: the list it returns
RECURSIVE MapSlicesLoop(_, _, _, _)
MapSlicesLoop(rs, stack, out, cursor) ==
    IF stack = <<>> THEN out
    ELSE LET slice == Top(stack)
             i == AdvanceRange(rs, cursor, slice)
         IN  IF i > Len(rs)
             THEN MapSlicesLoop(rs, Pop(stack),
                                Append(out, [start |-> slice.start,
                                             length |-> slice.length]), i)
             ELSE LET taken ==
                        IF slice.start < rs[i].source_start
                        THEN Min2(slice.length, rs[i].source_start - slice.start)
                        ELSE Min2(slice.length,
                                  rs[i].length - (slice.start - rs[i].source_start))
                      start ==
                        IF slice.start < rs[i].source_start THEN slice.start
                        ELSE rs[i].destination_start
                             + (slice.start - rs[i].source_start)
                  IN  MapSlicesLoop(
                        rs,
                        IF slice.length > taken
                        THEN Append(Pop(stack), [start |-> slice.start + taken,
                                                 length |-> slice.length - taken])
                        ELSE Pop(stack),
                        Append(out, [start |-> start, length |-> taken]),
                        i)

\* Map::map_slices as a function
map_slices(rs, sl) == MapSlicesLoop(rs, Reverse(SortByKey(sl, "start")), <<>>, 1)

----------------------------------------------------------------------------
(* Day 5: part_2 *)

Range(destination_start, source_start, length) ==
    [destination_start |-> destination_start, source_start |-> source_start,
     length |-> length]

\* the maps of data/examples/day_05.txt, as the test `new` lists them
ExampleMaps ==
    << [name |-> "seed-to-soil",
        ranges |-> <<Range(52, 50, 48), Range(50, 98, 2)>>],
       [name |-> "soil-to-fertilizer",
        ranges |-> <<Range(39, 0, 15), Range(0, 15, 37), Range(37, 52, 2)>>],
       [name |-> "fertilizer-to-water",
        ranges |-> <<Range(42, 0, 7), Range(57, 7, 4), Range(0, 11, 42),
                     Range(49, 53, 8)>>],
       [name |-> "water-to-light",
        ranges |-> <<Range(88, 18, 7), Range(18, 25, 70)>>],
       [name |-> "light-to-temperature",
        ranges |-> <<Range(81, 45, 19), Range(68, 64, 13), Range(45, 77, 23)>>],
       [name |-> "temperature-to-humidity",
        ranges |-> <<Range(1, 0, 69), Range(0, 69, 1)>>],
       [name |-> "humidity-to-location",
        ranges |-> <<Range(60, 56, 37), Range(56, 93, 4)>>] >>

ExampleSeeds == <<79, 14, 55, 13>>

\* the seed lists of the model: the numbers of the example, in any order
\* and number up to the four of the example
SeedLists == SeqsUpTo({79, 14, 55, 13}, Len(ExampleSeeds))

\* SeedSlices reading every number as a seed of its own
SeedSlicesSingle(sd) == [i \in 1 .. Len(sd) |-> [start |-> sd[i], length |-> 1]]

\* seeds.chunks_exact(2) mapped to Slice { start, length }
SeedSlices(sd) ==
    [i \in 1 .. (Len(sd) \div 2) |-> [start |-> sd[2 * i - 1], length |-> sd[2 * i]]]

\* the least start of the slices
MinStart(sl) == SetMin({sl[i].start : i \in 1 .. Len(sl)})

StartPart05 ==
    /\ seeds \in SeedLists
    /\ maps = ExampleMaps
    /\ stage = 0
    /\ pcPart5 = "idle"
    /\ ret5 = <<>>

InitPart05 ==
    /\ StartPart05
    /\ IdleMapSlices
    /\ Idle17 /\ IdleNew /\ IdleGet /\ Idle14 /\ Idle20 /\ Idle15
    /\ Idle19 /\ Idle18 /\ Idle06

\* part_2, lines 167-169: the seeds read as slices
Part2Enter_05 ==
    /\ pcPart5 = "idle"
    /\ slices' = SeedSlices(seeds)
    /\ stage' = 0
    /\ pcPart5' = "fold"
    /\ UNCHANGED <<seeds, maps, ret5>>
    /\ UNCHANGED <<ranges, source_slices, destination_slices, current_range, pc5>>
    /\ UNCHANGED othersPart05

\* the fold calls map.map_slices(&seeds) for the next map
FoldCall ==
    /\ pcPart5 = "fold"
    /\ pc5 = "off"
    /\ stage < Len(maps)
    /\ ranges' = maps[stage + 1].ranges
    /\ stage' = stage + 1
    /\ pc5' = "idle"
    /\ UNCHANGED <<seeds, maps, pcPart5, ret5>>
    /\ UNCHANGED <<slices, source_slices, destination_slices, current_range>>
    /\ UNCHANGED othersPart05

\* the fold takes what map_slices returned as its accumulator
FoldReturn ==
    /\ pcPart5 = "fold"
    /\ pc5 = "done"
    /\ slices' = destination_slices
    /\ pc5' = "off"
    /\ UNCHANGED <<seeds, maps, stage, pcPart5, ret5>>
    /\ UNCHANGED <<ranges, source_slices, destination_slices, current_range>>
    /\ UNCHANGED othersPart05

\* lines 172-176: the least start of the location slices
Part2Return_05 ==
    /\ pcPart5 = "fold"
    /\ pc5 = "off"
    /\ stage = Len(maps)
    /\ slices # <<>>
    /\ ret5' = to_string(MinStart(slices))
    /\ pcPart5' = "done"
    /\ UNCHANGED <<seeds, maps, stage>>
    /\ UNCHANGED vars05
    /\ UNCHANGED othersPart05

\* line 175: min() of no slice is None, and unwrap panics
Part2Panics_05 ==
    /\ pcPart5 = "fold"
    /\ pc5 = "off"
    /\ stage = Len(maps)
    /\ slices = <<>>
    /\ pcPart5' = "panicked"
    /\ UNCHANGED <<seeds, maps, stage, ret5>>
    /\ UNCHANGED vars05
    /\ UNCHANGED othersPart05

NextPart05 ==
    \/ Part2Enter_05
    \/ FoldCall
    \/ MapSlicesEnter
    \/ EmitUnmapped
    \/ EmitPrefix
    \/ EmitMapped
    \/ MapSlicesReturn
    \/ FoldReturn
    \/ Part2Return_05
    \/ Part2Panics_05

SpecPart05 == InitPart05 /\ [][NextPart05]_vars

\* part_2 on small puzzles: up to MaxSlices seed ranges and up to MaxMaps
\* maps of up to MaxRules ranges with pairwise disjoint source intervals,
\* every length at least 1
SmallRanges ==
    [destination_start : Destinations, source_start : 0 .. MaxSeed,
     length : 1 .. MaxLength]

DisjointRanges(n) ==
    {rs \in {SortedRanges(r) : r \in SeqsUpTo(SmallRanges, n)} :
        \A i, j \in 1 .. Len(rs) :
            i < j => rs[i].source_start + rs[i].length <= rs[j].source_start}

SmallMaps(n) == {[name |-> "map", ranges |-> rs] : rs \in DisjointRanges(n)}

\* the seeds line of a list of seed ranges: start, length, start, length ...
SeedsOf(sl) ==
    [i \in 1 .. 2 * Len(sl) |->
        IF i % 2 = 1 THEN sl[(i + 1) \div 2].start ELSE sl[i \div 2].length]

SmallSeeds(n) ==
    {SeedsOf(sl) : sl \in SeqsUpTo([start : 0 .. MaxSeed, length : 1 .. MaxLength], n)}

InitSmall05 ==
    /\ seeds \in SmallSeeds(MaxSlices)
    /\ maps \in SeqsUpTo(SmallMaps(MaxRules), MaxMaps)
    /\ stage = 0
    /\ pcPart5 = "idle"
    /\ ret5 = <<>>
    /\ IdleMapSlices
    /\ Idle17 /\ IdleNew /\ IdleGet /\ Idle14 /\ Idle20 /\ Idle15
    /\ Idle19 /\ Idle18 /\ Idle06

SpecSmall05 == InitSmall05 /\ [][NextPart05]_vars

----------------------------------------------------------------------------
(* Day 5: claims *)

\* the values a list of slices covers
Covered(sl) ==
    UNION {sl[i].start .. (sl[i].start + sl[i].length - 1) : i \in 1 .. Len(sl)}

\* the source intervals of the ranges are pairwise disjoint
DisjointSources(rs) ==
    \A i, j \in 1 .. Len(rs) :
        i < j => \/ rs[i].source_start + rs[i].length <= rs[j].source_start
                 \/ rs[j].source_start + rs[j].length <= rs[i].source_start

\* C2 (as claimed): for a Map with pairwise-disjoint source intervals and any
\* list of input slices, in any order, overlapping or nested, the values the
\* output slices cover are exactly the images under Map::map of the values
\* the input slices cover.
C2_MapSlicesIsMapOnSets ==
    (pc5 = "done" /\ DisjointSources(ranges))
        => Covered(destination_slices)
             = {MapValue(ranges, v) : v \in Covered(slices)}

\* C10 (as claimed): map_slices forwards no zero-length slice: an input slice
\* of length 0 leaves no slice in the output.
C10_ZeroLengthNotForwarded ==
    pc5 = "done"
        => \A i \in 1 .. Len(destination_slices) : destination_slices[i].length > 0

\* the sum of the lengths of a list of slices
TotalLength(sl) == SeqSum([i \in 1 .. Len(sl) |-> sl[i].length])

\* the source interval of the range and the interval of the slice share a value
Overlaps(range, slice) ==
    /\ slice.start < range.source_start + range.length
    /\ range.source_start < slice.start + slice.length

\* no rule overlaps any input slice
IdentityOnly(rs, sl) ==
    \A i \in 1 .. Len(rs), j \in 1 .. Len(sl) : ~Overlaps(rs[i], sl[j])

\* C11 (as claimed): map_slices preserves total measure, the sum of the
\* lengths of the output slices is the sum of the lengths of the input
\* slices; and when no rule overlaps any input slice the output holds the
\* input slices unchanged (the same slices, each as often as in the input).
C11_MeasurePreserved ==
    pc5 = "done"
        => /\ TotalLength(destination_slices) = TotalLength(slices)
           /\ IdentityOnly(ranges, slices)
                 => SeqToBag(destination_slices) = SeqToBag(slices)

\* C11, first half: the sum of the lengths alone
C11_MeasureOnly ==
    pc5 = "done" => TotalLength(destination_slices) = TotalLength(slices)

\* C14: on the example (seeds 79 14 55 13, the seven maps) part_2 reads the
\* seeds as the slices [79,93) and [55,68), folds them through the seven
\* maps with map_slices and returns "46", the least start among the slices
\* the last map_slices call returned.
C14_ExamplePart2 ==
    seeds = ExampleSeeds
        => /\ (pcPart5 = "fold" /\ stage = 0)
                 => slices = <<[start |-> 79, length |-> 14],
                               [start |-> 55, length |-> 13]>>
           /\ pcPart5 # "panicked"
           /\ pcPart5 = "done"
                 => /\ stage = Len(ExampleMaps)
                    /\ slices = destination_slices
                    /\ \E i \in 1 .. Len(slices) : slices[i].start = 46
                    /\ \A i \in 1 .. Len(slices) : slices[i].start >= 46
                    /\ ret5 = <<"4", "6">>

\* C14 witness: part_2 has returned "46" on the example after the seven
\* map_slices calls.
C14_Witness ==
    /\ seeds = ExampleSeeds
    /\ maps = ExampleMaps
    /\ pcPart5 = "done"
    /\ stage = 7
    /\ ret5 = <<"4", "6">>

\* two slices share a value, or one lies strictly inside the other
SlicesOverlap(a, b) ==
    /\ a.start < b.start + b.length
    /\ b.start < a.start + a.length

PairwiseDisjoint(sl) ==
    \A i, j \in 1 .. Len(sl) : i # j => ~SlicesOverlap(sl[i], sl[j])

\* the lists map_slices returns for the slices one at a time, concatenated
RECURSIVE OneByOne(_, _)
OneByOne(rs, sl) ==
    IF sl = <<>> THEN <<>>
    ELSE map_slices(rs, <<Head(sl)>>) \o OneByOne(rs, Tail(sl))

DistinctStarts(sl) ==
    \A i, j \in 1 .. Len(sl) : i # j => sl[i].start # sl[j].start

\* C15 (as claimed): map_slices does not depend on the order of its input: for pairwise
\* disjoint input slices in any order, the list returned is the
\* concatenation, in ascending order of input start (slices of equal start
\* in their input order), of the lists map_slices returns for each input
\* slice alone; with distinct starts the input in reverse order gives the
\* same list.
C15_OrderIndependent ==
    (pc5 = "done" /\ PairwiseDisjoint(slices))
        => /\ destination_slices = OneByOne(ranges, SortByKey(slices, "start"))
           /\ DistinctStarts(slices)
                 => destination_slices = map_slices(ranges, Reverse(slices))

\* part_1's fold of Map::map over the maps, from map k on
RECURSIVE Location(_, _, _)
Location(ms, k, source) ==
    IF k > Len(ms) THEN source
    ELSE Location(ms, k + 1, MapValue(ms[k].ranges, source))

\* every seed value inside every seed range [start, start + length)
SeedValues(sd) ==
    UNION {sd[2 * i - 1] .. (sd[2 * i - 1] + sd[2 * i] - 1) :
              i \in 1 .. (Len(sd) \div 2)}

\* C25 (as claimed): for every puzzle whose maps each have pairwise disjoint
\* source intervals, part_2 returns the minimum, over every seed value inside
\* every seed range, of the location part_1's fold of Map::map gives that
\* value, also when slices produced by one stage overlap on entry to the
\* next.
C25_Part2IsPerSeedMinimum ==
    (/\ pcPart5 = "done"
     /\ \A k \in 1 .. Len(maps) : DisjointSources(maps[k].ranges))
        => ret5 = to_string(SetMin({Location(maps, 1, v) : v \in SeedValues(seeds)}))

\* C23: map_slices never creates an empty piece: when every input slice has
\* length >= 1, every slice emitted and every remainder pushed back onto the
\* work stack has length >= 1, whatever the rules (rules of length 0 and
\* slices starting or ending on the edge of a rule's source interval
\* included).
C23_NoEmptyPiece ==
    (\A i \in 1 .. Len(slices) : slices[i].length >= 1)
        => /\ \A i \in 1 .. Len(source_slices) : source_slices[i].length >= 1
           /\ \A i \in 1 .. Len(destination_slices) :
                    destination_slices[i].length >= 1

\* C23 witness: a call that has returned, every input slice of length >= 1,
\* a rule of length 0, a slice cut into pieces, and a slice that starts on
\* the first value of a rule's source interval and one that ends on the last
C23_Witness ==
    /\ pc5 = "done"
    /\ slices # <<>>
    /\ \A i \in 1 .. Len(slices) : slices[i].length >= 1
    /\ \E r \in 1 .. Len(ranges) : ranges[r].length = 0
    /\ Len(destination_slices) > Len(slices)
    /\ \E i \in 1 .. Len(slices), r \in 1 .. Len(ranges) :
            /\ ranges[r].length >= 1
            /\ slices[i].start = ranges[r].source_start
    /\ \E i \in 1 .. Len(slices), r \in 1 .. Len(ranges) :
            /\ ranges[r].length >= 1
            /\ slices[i].start + slices[i].length
                    = ranges[r].source_start + ranges[r].length

----------------------------------------------------------------------------
(* Bounds of the construction model *)

MaxText == 5        \* longest input text, in characters

----------------------------------------------------------------------------
(* Puzzle construction: PuzzleBase::new over the nom parsers of day 17 *)

Digits == {"0", "1"}

Chars == Digits \cup {"\n", "\r", "a"}

Texts == SeqsUpTo(Chars, MaxText)

\* char::to_digit(10)
ToDigit(c) == IF c = "0" THEN 0 ELSE 1

\* a parser's result: Err(Error), or Ok((rest, value))
ParseError == [ok |-> FALSE]

ParseOk(rest, value) == [ok |-> TRUE, rest |-> rest, value |-> value]

\* the longest prefix of digits
RECURSIVE DigitPrefix(_)
DigitPrefix(input) ==
    IF input # <<>> /\ Head(input) \in Digits
    THEN <<Head(input)>> \o DigitPrefix(Tail(input))
    ELSE <<>>

Drop(input, n) == SubSeq(input, n + 1, Len(input))

\* nom::character::complete::digit1
digit1(input) ==
    LET taken == DigitPrefix(input)
    IN  IF taken = <<>> THEN ParseError
        ELSE ParseOk(Drop(input, Len(taken)), taken)

\* nom::character::complete::line_ending: "\n" or "\r\n"
line_ending(input) ==
    IF input # <<>> /\ input[1] = "\n" THEN ParseOk(Drop(input, 1), <<"\n">>)
    ELSE IF Len(input) >= 2 /\ input[1] = "\r" /\ input[2] = "\n"
         THEN ParseOk(Drop(input, 2), <<"\r", "\n">>)
         ELSE ParseError

\* the loop of separated_list1(line_ending, digit1) after its first element:
\* a failing separator, or a failing element after the separator, ends the
\* list at the input before that separator
RECURSIVE MoreDigitLines(_, _)
MoreDigitLines(input, res) ==
    LET sep == line_ending(input)
    IN  IF ~sep.ok THEN ParseOk(input, res)
        ELSE LET element == digit1(sep.rest)
             IN  IF ~element.ok THEN ParseOk(input, res)
                 ELSE MoreDigitLines(element.rest, Append(res, element.value))

\* separated_list1(line_ending, digit1)
DigitLines(input) ==
    LET first == digit1(input)
    IN  IF ~first.ok THEN ParseError
        ELSE MoreDigitLines(first.rest, <<first.value>>)

\* day 17 Puzzle::parse: the lines mapped to rows of digits
Parse17(input) ==
    LET digit_lines == DigitLines(input)
    IN  IF ~digit_lines.ok THEN ParseError
        ELSE ParseOk(digit_lines.rest,
                     [grid |-> [i \in 1 .. Len(digit_lines.value) |->
                                  [j \in 1 .. Len(digit_lines.value[i]) |->
                                     ToDigit(digit_lines.value[i][j])]]])

\* terminated(Self::parse, complete::line_ending)
TerminatedParse17(input) ==
    LET first == Parse17(input)
    IN  IF ~first.ok THEN ParseError
        ELSE LET second == line_ending(first.rest)
             IN  IF ~second.ok THEN ParseError
                 ELSE ParseOk(second.rest, first.value)

\* PuzzleBase::new: `.parse(data).unwrap().1`; unwrap panics on Err, and the
\* rest of the input (`.0`) is dropped
New17(input) ==
    LET result == TerminatedParse17(input)
    IN  IF result.ok THEN result.value ELSE NoPuzzle

StartNew ==
    /\ data \in Texts
    /\ puzzle = NoPuzzle
    /\ pcNew = "idle"

\* days::day_17::Puzzle::new(data) returns a Puzzle
NewBuilds ==
    /\ pcNew = "idle"
    /\ New17(data) # NoPuzzle
    /\ puzzle' = New17(data)
    /\ pcNew' = "built"
    /\ UNCHANGED data
    /\ UNCHANGED othersNew

\* days::day_17::Puzzle::new(data) panics in unwrap
NewPanics ==
    /\ pcNew = "idle"
    /\ New17(data) = NoPuzzle
    /\ pcNew' = "panicked"
    /\ UNCHANGED <<data, puzzle>>
    /\ UNCHANGED othersNew

InitNew == StartNew /\ Idle17 /\ Idle05 /\ IdleGet /\ Idle14 /\ Idle20 /\ Idle15
    /\ Idle19 /\ Idle18 /\ Idle06

NextNew ==
    \/ NewBuilds
    \/ NewPanics

SpecNew == InitNew /\ [][NextNew]_vars

----------------------------------------------------------------------------
(* Puzzle construction: claims *)

\* the grammar of a day 17 puzzle text, stated on its own: one or more rows
\* of one or more digits, each two rows separated by one line terminator
RECURSIVE IsRows(_)
IsRows(text) ==
    LET row == DigitPrefix(text)
        after == Drop(text, Len(row))
    IN  /\ row # <<>>
        /\ \/ after = <<>>
           \/ after[1] = "\n" /\ IsRows(Drop(after, 1))
           \/ Len(after) >= 2 /\ after[1] = "\r" /\ after[2] = "\n"
              /\ IsRows(Drop(after, 2))

EndsWithLineEnding(text) ==
    text # <<>> /\ text[Len(text)] = "\n"

WithoutLineEnding(text) ==
    IF Len(text) >= 2 /\ text[Len(text) - 1] = "\r"
    THEN SubSeq(text, 1, Len(text) - 2)
    ELSE SubSeq(text, 1, Len(text) - 1)

\* one complete puzzle: the rows, with the final line terminator or without
Conforming(text) ==
    \/ IsRows(text)
    \/ EndsWithLineEnding(text) /\ IsRows(WithoutLineEnding(text))

\* C4 (as claimed): construction is all-or-nothing: whenever the text is not
\* one complete grammar-conforming puzzle, PuzzleBase::new fails and no
\* Puzzle is produced.
C4_AllOrNothing ==
    (pcNew # "idle" /\ pcNew # "off" /\ ~Conforming(data))
        => (pcNew = "panicked" /\ puzzle = NoPuzzle)

\* C5 (as claimed): a grammar-conforming text is accepted both without and
\* with its final line terminator, and both forms yield equal Puzzle values.
C5_TerminatorTolerated ==
    (pcNew # "idle" /\ pcNew # "off" /\ IsRows(data))
        => /\ pcNew = "built"
           /\ New17(data \o <<"\n">>) # NoPuzzle
           /\ puzzle = New17(data \o <<"\n">>)

\* C12 (as claimed): the grid of a constructed grid puzzle has all rows of
\* equal length: a text whose rows differ in length yields no Puzzle with a
\* ragged grid.
C12_RowsEqualLength ==
    pcNew = "built"
        => \A i, j \in 1 .. Len(puzzle.grid) :
              Len(puzzle.grid[i]) = Len(puzzle.grid[j])

----------------------------------------------------------------------------
(* Bounds of the dispatcher model *)

MaxInputs == 24     \* longest Vec given to solve_all_puzzles

----------------------------------------------------------------------------
(* Dispatcher: get_puzzle and solve_all_puzzles *)

U8Values == 256

\* Arms with the last arm calling the constructor of the arm above it
ArmsLastRepeated ==
    <<<<1, "day_01">>, <<2, "day_02">>, <<3, "day_03">>, <<4, "day_04">>,
      <<5, "day_05">>, <<6, "day_06">>, <<7, "day_07">>, <<8, "day_08">>,
      <<9, "day_09">>, <<10, "day_10">>, <<11, "day_11">>, <<12, "day_12">>,
      <<13, "day_13">>, <<14, "day_14">>, <<15, "day_15">>, <<16, "day_16">>,
      <<17, "day_17">>, <<18, "day_18">>, <<19, "day_19">>, <<20, "day_20">>,
      <<21, "day_21">>, <<22, "day_22">>, <<23, "day_22">>>>

\* the arms of the match in get_puzzle, in source order: the literal matched
\* and the module whose Puzzle::new the arm calls
Arms ==
    <<<<1, "day_01">>, <<2, "day_02">>, <<3, "day_03">>, <<4, "day_04">>,
      <<5, "day_05">>, <<6, "day_06">>, <<7, "day_07">>, <<8, "day_08">>,
      <<9, "day_09">>, <<10, "day_10">>, <<11, "day_11">>, <<12, "day_12">>,
      <<13, "day_13">>, <<14, "day_14">>, <<15, "day_15">>, <<16, "day_16">>,
      <<17, "day_17">>, <<18, "day_18">>, <<19, "day_19">>, <<20, "day_20">>,
      <<21, "day_21">>, <<22, "day_22">>, <<23, "day_23">>>>

\* the first arm matching d, 0 for the `_` arm
MatchArm(d) ==
    IF \E i \in 1 .. Len(Arms) : Arms[i][1] = d
    THEN CHOOSE i \in 1 .. Len(Arms) :
            /\ Arms[i][1] = d
            /\ \A j \in 1 .. i - 1 : Arms[j][1] # d
    ELSE 0

\* An input text: which modules' Puzzle::new accept it (the others panic in
\* unwrap). `id` tells the texts of one Vec apart.
Accepted(module, input) == module \in input.accepted

Modules == {Arms[i][2] : i \in 1 .. Len(Arms)}

\* days::<module>::Puzzle::new(data), boxed
NewPuzzle(module, input) ==
    IF Accepted(module, input) THEN [module |-> module, data |-> input]
    ELSE NoPuzzle

\* get_puzzle: the Box returned, or the panic
GetPuzzle(d, input) ==
    LET arm == MatchArm(d)
    IN  IF arm = 0 THEN [panic |-> "Invalid day"]
        ELSE IF NewPuzzle(Arms[arm][2], input) = NoPuzzle
             THEN [panic |-> "unwrap"]
             ELSE [puzzle |-> NewPuzzle(Arms[arm][2], input)]

Panicked(result) == "panic" \in DOMAIN result

\* puzzle.part_1() / puzzle.part_2() through the vtable of the Box: the
\* part of the module the Puzzle was built by, on the data it was built from
part_1(p) == [part |-> "part_1", module |-> p.module, data |-> p.data]

part_2(p) == [part |-> "part_2", module |-> p.module, data |-> p.data]

\* `as u8`
AsU8(n) == n % U8Values

\* DayOf with the position passed as it is
DayOfZeroBased(position) == AsU8(position)

\* `(day + 1) as u8`, day the position enumerate() gives
DayOf(position) == AsU8(position + 1)

InputTexts(n, bad) ==
    [i \in 1 .. n |-> [id |-> i, accepted |-> IF i = bad THEN {} ELSE Modules]]

StartGet ==
    \/ /\ day \in 0 .. U8Values - 1
       /\ day_data \in {[id |-> 1, accepted |-> a] : a \in {Modules, {}}}
       /\ pcGet = "idle"
       /\ all_data = <<>>
       /\ pcSolve = "off"
    \/ /\ day = 0
       /\ day_data = <<>>
       /\ pcGet = "off"
       /\ \E n \in 0 .. MaxInputs : \E bad \in 0 .. n :
            all_data = InputTexts(n, bad)
       /\ pcSolve = "idle"

InitGet ==
    /\ StartGet
    /\ boxed = NoPuzzle
    /\ index = 0
    /\ solved = <<>>
    /\ panic = ""
    /\ Idle17 /\ Idle05 /\ IdleNew /\ Idle14 /\ Idle20 /\ Idle15
    /\ Idle19 /\ Idle18 /\ Idle06

\* get_puzzle(day, data) returns the Box
GetPuzzleReturns ==
    /\ pcGet = "idle"
    /\ ~Panicked(GetPuzzle(day, day_data))
    /\ boxed' = GetPuzzle(day, day_data).puzzle
    /\ pcGet' = "returned"
    /\ UNCHANGED <<day, day_data, all_data, index, solved, pcSolve, panic>>
    /\ UNCHANGED othersGet

\* get_puzzle(day, data) panics
GetPuzzlePanics ==
    /\ pcGet = "idle"
    /\ Panicked(GetPuzzle(day, day_data))
    /\ panic' = GetPuzzle(day, day_data).panic
    /\ pcGet' = "panicked"
    /\ UNCHANGED <<day, day_data, boxed, all_data, index, solved, pcSolve>>
    /\ UNCHANGED othersGet

\* solve_all_puzzles: data.iter().enumerate() is entered
SolveAllEnter ==
    /\ pcSolve = "idle"
    /\ index' = 0
    /\ solved' = <<>>
    /\ pcSolve' = "loop"
    /\ UNCHANGED <<day, day_data, boxed, pcGet, all_data, panic>>
    /\ UNCHANGED othersGet

\* one element of the map closure: the puzzle is built and both parts run
SolveOne ==
    /\ pcSolve = "loop"
    /\ index < Len(all_data)
    /\ LET result == GetPuzzle(DayOf(index), all_data[index + 1])
       IN  /\ ~Panicked(result)
           /\ solved' = Append(solved, <<part_1(result.puzzle), part_2(result.puzzle)>>)
    /\ index' = index + 1
    /\ UNCHANGED <<day, day_data, boxed, pcGet, all_data, pcSolve, panic>>
    /\ UNCHANGED othersGet

\* one element of the map closure: get_puzzle panics
SolveOnePanics ==
    /\ pcSolve = "loop"
    /\ index < Len(all_data)
    /\ LET result == GetPuzzle(DayOf(index), all_data[index + 1])
       IN  /\ Panicked(result)
           /\ panic' = result.panic
    /\ pcSolve' = "panicked"
    /\ UNCHANGED <<day, day_data, boxed, pcGet, all_data, index, solved>>
    /\ UNCHANGED othersGet

\* the iterator is exhausted: collect() returns the Vec
SolveAllReturns ==
    /\ pcSolve = "loop"
    /\ index = Len(all_data)
    /\ pcSolve' = "returned"
    /\ UNCHANGED <<day, day_data, boxed, pcGet, all_data, index, solved, panic>>
    /\ UNCHANGED othersGet

NextGet ==
    \/ GetPuzzleReturns
    \/ GetPuzzlePanics
    \/ SolveAllEnter
    \/ SolveOne
    \/ SolveOnePanics
    \/ SolveAllReturns

SpecGet == InitGet /\ [][NextGet]_vars

----------------------------------------------------------------------------
(* Dispatcher: claims *)

LastDay == 23

\* the module of day d, by name: "day_" and the two decimal digits of d
ModuleOfDay(d) == "day_" \o to_string(d \div 10)[1] \o to_string(d % 10)[1]

\* C7: get_puzzle panics with "Invalid day" and returns no puzzle for every
\* day outside 1..=23, and for every day in 1..=23 it constructs that day's
\* Puzzle type from data (or panics in that day's constructor when the data
\* do not parse).
C7_GetPuzzleFailsFast ==
    (pcGet = "returned" \/ pcGet = "panicked")
        => IF day \in 1 .. LastDay
           THEN \/ /\ pcGet = "returned"
                   /\ boxed = [module |-> ModuleOfDay(day), data |-> day_data]
                   /\ Accepted(ModuleOfDay(day), day_data)
                \/ /\ pcGet = "panicked"
                   /\ panic = "unwrap"
                   /\ boxed = NoPuzzle
                   /\ ~Accepted(ModuleOfDay(day), day_data)
           ELSE pcGet = "panicked" /\ panic = "Invalid day" /\ boxed = NoPuzzle

C7_Witness ==
    pcGet = "panicked" /\ day = LastDay + 1 /\ panic = "Invalid day"

\* C8: solve_all_puzzles(data), for data of length n <= 23, returns exactly n
\* pairs, in input order; the pair at 0-based index i is (part_1, part_2) of
\* the day i+1 puzzle constructed from data[i]. No input is routed to another
\* day: the call can only end otherwise by the constructor of day i+1
\* panicking on data[i].
C8_SolveAllInOrder ==
    /\ (pcSolve = "returned" /\ Len(all_data) <= LastDay)
        => /\ Len(solved) = Len(all_data)
           /\ \A i \in 1 .. Len(all_data) :
                solved[i] =
                    <<[part |-> "part_1", module |-> ModuleOfDay(i), data |-> all_data[i]],
                      [part |-> "part_2", module |-> ModuleOfDay(i), data |-> all_data[i]]>>
    /\ (pcSolve = "panicked" /\ Len(all_data) <= LastDay)
        => /\ panic = "unwrap"
           /\ ~Accepted(ModuleOfDay(index + 1), all_data[index + 1])

C8_Witness ==
    pcSolve = "returned" /\ Len(all_data) = LastDay /\ Len(solved) = LastDay

----------------------------------------------------------------------------
(* Bounds of the day 14 model *)

MaxPlatform == 3    \* most rows and most columns of the platform
MaxTarget == 6      \* largest number of cycles asked for
MaxCubes == 1       \* most cube-shaped rocks on the platform

----------------------------------------------------------------------------
(* Day 14 *)

Rocks == {"Round", "Cube", "Empty"}

CubeCount(ls) ==
    Cardinality({cell \in (1 .. Len(ls)) \X (1 .. Len(ls[1])) :
                   ls[cell[1]][cell[2]] = "Cube"})

Platforms ==
    {ls \in UNION {[1 .. h -> [1 .. w -> Rocks]] :
                     h \in 1 .. MaxPlatform, w \in 1 .. MaxPlatform} :
       CubeCount(ls) <= MaxCubes}

\* part_2, lines 65-70: the rocks of self.lines in row-major order
RECURSIVE RowPositions(_, _, _)
RowPositions(line, row, col) ==
    IF col >= Len(line) THEN <<>>
    ELSE (IF line[col + 1] # "Empty"
          THEN <<[row |-> row, col |-> col, rock |-> line[col + 1]]>>
          ELSE <<>>)
         \o RowPositions(line, row, col + 1)

RECURSIVE PositionsFrom(_, _)
PositionsFrom(ls, row) ==
    IF row >= Len(ls) THEN <<>>
    ELSE RowPositions(ls[row + 1], row, 0) \o PositionsFrom(ls, row + 1)

InitialPositions(ls) == PositionsFrom(ls, 0)

\* the map closure of tilt_north / tilt_west over the sorted positions:
\* `along` is the field the rocks move in, `across` the field that indexes
\* offsets
RECURSIVE TiltUp(_, _, _, _)
TiltUp(ps, offsets, along, across) ==
    IF ps = <<>> THEN <<>>
    ELSE LET position == Head(ps)
             lane == position[across]
         IN  CASE position.rock = "Cube" ->
                    <<position>>
                    \o TiltUp(Tail(ps),
                              [offsets EXCEPT ![lane] = position[along] + 1],
                              along, across)
               [] position.rock = "Round" ->
                    <<[position EXCEPT ![along] = offsets[lane] + 1 - 1]>>
                    \o TiltUp(Tail(ps),
                              [offsets EXCEPT ![lane] = offsets[lane] + 1],
                              along, across)
               [] OTHER ->
                    <<position>> \o TiltUp(Tail(ps), offsets, along, across)

\* the map closure of tilt_south / tilt_east
RECURSIVE TiltDown(_, _, _, _)
TiltDown(ps, offsets, along, across) ==
    IF ps = <<>> THEN <<>>
    ELSE LET position == Head(ps)
             lane == position[across]
         IN  CASE position.rock = "Cube" ->
                    <<position>>
                    \o TiltDown(Tail(ps),
                                [offsets EXCEPT ![lane] = position[along]],
                                along, across)
               [] position.rock = "Round" ->
                    <<[position EXCEPT ![along] = offsets[lane] - 1]>>
                    \o TiltDown(Tail(ps),
                                [offsets EXCEPT ![lane] = offsets[lane] - 1],
                                along, across)
               [] OTHER ->
                    <<position>> \o TiltDown(Tail(ps), offsets, along, across)

\* sort_unstable_by_key leaves the order of positions with equal keys open;
\* two such positions lie in different lanes, so the positions a tilt
\* returns do not depend on it. The sort is modelled by the insertion sort.
tilt_north(ps, height, width) ==
    TiltUp(SortByKey(ps, "row"), [c \in 0 .. width - 1 |-> 0], "row", "col")

tilt_south(ps, height, width) ==
    TiltDown(Reverse(SortByKey(ps, "row")), [c \in 0 .. width - 1 |-> height],
             "row", "col")

\* tilt_west taking the positions in the order it is given them
TiltWestUnsorted(ps, height, width) ==
    TiltUp(ps, [r \in 0 .. height - 1 |-> 0], "col", "row")

tilt_west(ps, height, width) ==
    TiltUp(SortByKey(ps, "col"), [r \in 0 .. height - 1 |-> 0], "col", "row")

tilt_east(ps, height, width) ==
    TiltDown(Reverse(SortByKey(ps, "col")), [r \in 0 .. height - 1 |-> width],
             "col", "row")

cycle_directions(ps, height, width) ==
    tilt_east(tilt_south(tilt_west(tilt_north(ps, height, width),
                                   height, width),
                         height, width),
              height, width)

\* the positions left in the order cycle_directions returns them
SortByRowColSkipped(ps) == ps

\* sort_unstable_by_key(|position| (position.row, position.col)): no two
\* rocks share a cell, so the order is the one of sorting by col, then
\* stably by row
SortByRowCol(ps) == SortByKey(SortByKey(ps, "col"), "row")

RECURSIVE get_north_load(_, _)
get_north_load(ps, height) ==
    IF ps = <<>> THEN 0
    ELSE (IF Head(ps).rock = "Round" THEN height - Head(ps).row ELSE 0)
         + get_north_load(Tail(ps), height)

\* cycle_directions applied n times
RECURSIVE CycleTimes(_, _, _, _)
CycleTimes(ps, n, height, width) ==
    IF n = 0 THEN ps
    ELSE CycleTimes(cycle_directions(ps, height, width), n - 1, height, width)

\* Remaining without the cycles already run
RemainingOfTarget(goal, at, length) == goal % length

\* line 77: the iterations of the fast-forward loop
Remaining(goal, at, length) == (goal - at) % length

\* part_1, lines 47-61: the fold over the cells in row-major order
RECURSIVE Part1Total(_, _, _, _)
Part1Total(ls, row, col, offsets) ==
    IF row >= Len(ls) THEN 0
    ELSE IF col >= Len(ls[row + 1]) THEN Part1Total(ls, row + 1, 0, offsets)
    ELSE LET rock == ls[row + 1][col + 1]
         IN  IF rock = "Round"
             THEN (Len(ls) - offsets[col])
                  + Part1Total(ls, row, col + 1,
                               [offsets EXCEPT ![col] = offsets[col] + 1])
             ELSE IF rock = "Cube"
             THEN Part1Total(ls, row, col + 1, [offsets EXCEPT ![col] = row + 1])
             ELSE Part1Total(ls, row, col + 1, offsets)

Start14 ==
    /\ lines \in Platforms
    /\ target \in 0 .. MaxTarget
    /\ positions = <<>>
    /\ known_positions = {}
    /\ cycle = 0
    /\ cycle_length = 0
    /\ pc14 = "idle"
    /\ returned_1 = {}
    /\ returned_2 = {}

Init14 == Start14 /\ Idle17 /\ Idle05 /\ IdleNew /\ IdleGet /\ Idle20 /\ Idle15
    /\ Idle19 /\ Idle18 /\ Idle06

KnownCycle(key) == {e[2] : e \in {k \in known_positions : k[1] = key}}

\* part_1: runs to its end and returns the total
Part1_14 ==
    /\ pc14 = "idle"
    /\ returned_1' = returned_1 \cup
            {to_string(Part1Total(lines, 0, 0, [c \in 0 .. Len(lines[1]) - 1 |-> 0]))}
    /\ UNCHANGED <<lines, target, positions, known_positions, cycle, cycle_length,
                   pc14, returned_2>>
    /\ UNCHANGED others14

\* part_2 up to its loop: positions from self.lines, an empty map
Part2Enter ==
    /\ pc14 = "idle"
    /\ positions' = InitialPositions(lines)
    /\ known_positions' = {}
    /\ cycle' = 0
    /\ cycle_length' = 0
    /\ pc14' = "loop"
    /\ UNCHANGED <<lines, target, returned_1, returned_2>>
    /\ UNCHANGED others14

\* one iteration of the loop with positions not yet in known_positions
Part2Cycle ==
    /\ pc14 = "loop"
    /\ cycle < target
    /\ KnownCycle(positions) = {}
    /\ known_positions' = known_positions \cup {<<positions, cycle>>}
    /\ positions' = SortByRowCol(cycle_directions(positions, Len(lines), Len(lines[1])))
    /\ cycle' = cycle + 1
    /\ UNCHANGED <<lines, target, cycle_length, pc14, returned_1, returned_2>>
    /\ UNCHANGED others14

\* the iteration that finds positions in known_positions: the remaining
\* cycles modulo the cycle length are run and the loop is left
Part2FastForward ==
    /\ pc14 = "loop"
    /\ cycle < target
    /\ KnownCycle(positions) # {}
    /\ \E previous_cycle \in KnownCycle(positions) :
        /\ known_positions' =
              (known_positions \ {<<positions, previous_cycle>>})
              \cup {<<positions, cycle>>}
        /\ cycle_length' = cycle - previous_cycle
        /\ positions' =
              CycleTimes(positions, Remaining(target, cycle, cycle - previous_cycle),
                         Len(lines), Len(lines[1]))
    /\ pc14' = "exit"
    /\ UNCHANGED <<lines, target, cycle, returned_1, returned_2>>
    /\ UNCHANGED others14

\* the range 0..target is exhausted
Part2LoopEnds ==
    /\ pc14 = "loop"
    /\ cycle = target
    /\ pc14' = "exit"
    /\ UNCHANGED <<lines, target, positions, known_positions, cycle, cycle_length,
                   returned_1, returned_2>>
    /\ UNCHANGED others14

\* line 87: part_2 returns the north load
Part2Return ==
    /\ pc14 = "exit"
    /\ returned_2' = returned_2 \cup {to_string(get_north_load(positions, Len(lines)))}
    /\ pc14' = "idle"
    /\ UNCHANGED <<lines, target, positions, known_positions, cycle, cycle_length,
                   returned_1>>
    /\ UNCHANGED others14

Next14 ==
    \/ Part1_14
    \/ Part2Enter
    \/ Part2Cycle
    \/ Part2FastForward
    \/ Part2LoopEnds
    \/ Part2Return

Spec14 == Init14 /\ [][Next14]_vars

----------------------------------------------------------------------------
(* Day 14 claims *)

\* the load after exactly `target` applications of cycle_directions to the
\* platform as parsed
LoadAfterTarget ==
    get_north_load(CycleTimes(PositionsFrom(lines, 0), target, Len(lines), Len(lines[1])),
                   Len(lines))

\* the cycle at which the positions found again had been recorded
PreviousCycle == cycle - cycle_length

\* C3: part_2 returns the north load of the platform after exactly `target`
\* spin cycles: when the loop is left, through the fast-forward or at the
\* end of the range, the positions carry that load, and every string
\* returned is its decimal form.
C3_FastForwardExact ==
    /\ pc14 = "exit" => get_north_load(positions, Len(lines)) = LoadAfterTarget
    /\ \A r \in returned_2 : r = to_string(LoadAfterTarget)

\* C3 witness: a call returned after a fast-forward that found a state first
\* seen after cycle 0, with a cycle longer than one and cycles left to run.
C3_Witness ==
    /\ pc14 = "idle"
    /\ returned_2 # {}
    /\ cycle_length >= 2
    /\ PreviousCycle >= 1
    /\ Remaining(target, cycle, cycle_length) >= 1

\* the rocks of a list of positions, without their order
Placement(ps) == {ps[i] : i \in 1 .. Len(ps)}

\* the rocks of the platform as parsed
RocksOf(ls) ==
    {p \in {[row |-> r, col |-> c, rock |-> ls[r + 1][c + 1]] :
                r \in 0 .. Len(ls) - 1, c \in 0 .. Len(ls[1]) - 1} :
        p.rock # "Empty"}

Cubes(placement) == {p \in placement : p.rock = "Cube"}

\* strictly increasing by (row, col): sorted, and no two entries on a cell
Canonical(key) ==
    \A i, j \in 1 .. Len(key) :
        i < j => \/ key[i].row < key[j].row
                 \/ key[i].row = key[j].row /\ key[i].col < key[j].col

\* C24: every key inserted into known_positions is the list of all Round and
\* Cube rocks sorted by (row, col) with no two entries on the same cell (the
\* key recorded for cycle c being the rocks after c spin cycles), so two keys
\* are equal exactly when the rocks are placed the same, and a cycle is
\* reported only when the placement after `cycle` spin cycles is the one
\* after `cycle - cycle_length`.
C24_CanonicalKeys ==
    /\ \A e \in known_positions :
            /\ Canonical(e[1])
            /\ \A i \in 1 .. Len(e[1]) : e[1][i].rock \in {"Round", "Cube"}
            /\ Len(e[1]) = Cardinality(RocksOf(lines))
            /\ Cubes(Placement(e[1])) = Cubes(RocksOf(lines))
            /\ Placement(e[1])
                    = Placement(CycleTimes(InitialPositions(lines), e[2],
                                           Len(lines), Len(lines[1])))
    /\ \A e, f \in known_positions :
            (e[1] = f[1]) <=> (Placement(e[1]) = Placement(f[1]))
    /\ (pc14 = "exit" /\ cycle_length > 0)
            => Placement(CycleTimes(InitialPositions(lines), cycle,
                                    Len(lines), Len(lines[1])))
               = Placement(CycleTimes(InitialPositions(lines), PreviousCycle,
                                      Len(lines), Len(lines[1])))

\* C24 witness: a cycle longer than one reported on a platform with a Cube
\* and two Round rocks, with several keys recorded
C24_Witness ==
    /\ pc14 = "exit"
    /\ cycle_length >= 2
    /\ Cardinality(known_positions) >= 3
    /\ Cubes(RocksOf(lines)) # {}
    /\ Cardinality(RocksOf(lines)) >= 3

\* the Round rocks of lane l (a column for north/south, a row for west/east)
\* that lie before coordinate k of the lane
RoundsBefore(ps, along, across, l, k) ==
    Cardinality({i \in 1 .. Len(ps) :
                    /\ ps[i].rock = "Round"
                    /\ ps[i][across] = l
                    /\ ps[i][along] < k})

\* every rock inside the grid and no two on the same cell
WellPlaced(ps, height, width) ==
    /\ \A i \in 1 .. Len(ps) :
            ps[i].row \in 0 .. height - 1 /\ ps[i].col \in 0 .. width - 1
    /\ \A i, j \in 1 .. Len(ps) :
            i # j => ps[i].row # ps[j].row \/ ps[i].col # ps[j].col

\* what a tilt keeps: the Cubes, the number of rocks, each rock in the grid
\* on a cell of its own, and in every lane the number of Round rocks on each
\* side of each Cube (no Round rock leaves its lane or passes a Cube)
Conserves(before, after, along, across, height, width) ==
    /\ Cubes(Placement(after)) = Cubes(Placement(before))
    /\ Len(after) = Len(before)
    /\ \A i \in 1 .. Len(after) : after[i].rock \in {"Round", "Cube"}
    /\ WellPlaced(after, height, width)
    /\ \A l \in 0 .. MaxPlatform - 1 :
            /\ RoundsBefore(after, along, across, l, MaxPlatform)
                    = RoundsBefore(before, along, across, l, MaxPlatform)
            /\ \A c \in Cubes(Placement(before)) :
                    c[across] = l
                        => RoundsBefore(after, along, across, l, c[along])
                           = RoundsBefore(before, along, across, l, c[along])

\* C28: each of tilt_north, tilt_west, tilt_south and tilt_east, hence
\* cycle_directions applied any number of times, keeps every Cube at its
\* position, keeps the number of Round rocks, keeps every rock inside the
\* grid, never places two rocks on the same cell, and moves a Round rock only
\* along its own column (north, south) or row (west, east) without passing a
\* Cube.
C28_TiltsConserve ==
    LET height == Len(lines)
        width == Len(lines[1])
        north == tilt_north(positions, height, width)
        west == tilt_west(north, height, width)
        south == tilt_south(west, height, width)
        east == tilt_east(south, height, width)
    IN  pc14 \in {"loop", "exit"}
            => /\ Cubes(Placement(positions)) = Cubes(RocksOf(lines))
               /\ Len(positions) = Cardinality(RocksOf(lines))
               /\ WellPlaced(positions, height, width)
               /\ Conserves(positions, north, "row", "col", height, width)
               /\ Conserves(north, west, "col", "row", height, width)
               /\ Conserves(west, south, "row", "col", height, width)
               /\ Conserves(south, east, "col", "row", height, width)
               /\ east = cycle_directions(positions, height, width)

\* C28 witness: after at least one spin cycle, a platform with a Cube and two
\* Round rocks on which each of the four tilts still moves a rock
C28_Witness ==
    LET height == Len(lines)
        width == Len(lines[1])
        north == tilt_north(positions, height, width)
        west == tilt_west(north, height, width)
        south == tilt_south(west, height, width)
        east == tilt_east(south, height, width)
    IN  /\ pc14 = "loop"
        /\ cycle >= 1
        /\ Cubes(Placement(positions)) # {}
        /\ Len(positions) >= 3
        /\ Placement(north) # Placement(positions)
        /\ Placement(west) # Placement(north)
        /\ Placement(south) # Placement(west)
        /\ Placement(east) # Placement(south)

----------------------------------------------------------------------------
(* Bounds of the day 20 model *)

MaxDestinations == 2    \* longest destination list of a module
MaxPresses == 2         \* largest number of button presses asked for
MaxPulses == 12         \* most pulses handled during one call

----------------------------------------------------------------------------
(* Day 20 *)

TypedNames == {"a", "b"}

DestinationLists == SeqsUpTo(TypedNames \cup {"output"}, MaxDestinations) \ {<<>>}

Module(name, destinations, module_type) ==
    [name |-> name, destinations |-> destinations, module_type |-> module_type]

\* the modules a typed name stands for in a configuration: none or one
TypedModules(name) ==
    {<<>>} \cup {<<Module(name, d, t)>> :
                   d \in DestinationLists, t \in {"FlipFlop", "Conjunction"}}

\* the module lists of the model: a module named broadcaster with one of
\* the destination lists, then at most one module for each typed name
ModuleLists(lists) ==
    {<<Module("broadcaster", d, t)>> \o a \o b :
       d \in lists, t \in {"Broadcaster", "Conjunction"},
       a \in TypedModules("a"), b \in TypedModules("b")}

\* part_1, line 54: for _ in 0..1000
ButtonPresses == 1000

\* data/examples/day_20_2.txt, the configuration of the part_1 test:
\* broadcaster -> a / %a -> inv, con / &inv -> b / %b -> con / &con -> output
ExampleModules20 ==
    <<Module("broadcaster", <<"a">>, "Broadcaster"),
      Module("a", <<"inv", "con">>, "FlipFlop"),
      Module("inv", <<"b">>, "Conjunction"),
      Module("b", <<"con">>, "FlipFlop"),
      Module("con", <<"output">>, "Conjunction")>>

\* the drawn configurations may send pulses round forever and are followed
\* for MaxPulses pulses; the example configuration comes to rest after
\* every press and is followed to the end
WithinPulses ==
    modules # ExampleModules20 => highs + lows < MaxPulses

SeqContains(seq, x) == \E i \in 1 .. Len(seq) : seq[i] = x

\* HashMap::from_iter over (name, module): the last module of a name wins
ModuleNamed(ms, name) ==
    ms[CHOOSE i \in 1 .. Len(ms) :
          /\ ms[i].name = name
          /\ \A j \in i + 1 .. Len(ms) : ms[j].name # name]

ModuleKeys(ms) == {ms[i].name : i \in 1 .. Len(ms)}

\* init, lines 113-119: the inputs of a conjunction are the names of the
\* modules that list it as a destination, all remembered low
InputsOf(ms, name) ==
    {ms[i].name : i \in {j \in 1 .. Len(ms) : SeqContains(ms[j].destinations, name)}}

\* init taking over the states the last call left
InitLeftOver(ms) ==
    IF states # <<>> THEN states
    ELSE [name \in ModuleKeys(ms) |->
            CASE ModuleNamed(ms, name).module_type = "FlipFlop" ->
                    [kind |-> "FlipFlop", on |-> FALSE]
              [] ModuleNamed(ms, name).module_type = "Conjunction" ->
                    [kind |-> "Conjunction",
                     inputs |-> [origin \in InputsOf(ms, name) |-> FALSE]]
              [] OTHER -> [kind |-> "Broadcaster"]]

\* init: the states of the modules before the first button press
init(ms) ==
    [name \in ModuleKeys(ms) |->
        CASE ModuleNamed(ms, name).module_type = "FlipFlop" ->
                [kind |-> "FlipFlop", on |-> FALSE]
          [] ModuleNamed(ms, name).module_type = "Conjunction" ->
                [kind |-> "Conjunction",
                 inputs |-> [origin \in InputsOf(ms, name) |-> FALSE]]
          [] OTHER -> [kind |-> "Broadcaster"]]

\* State::receive panics: the unwrap of inputs.get_mut(origin) on None
ReceivePanics(state, origin) ==
    /\ state.kind = "Conjunction"
    /\ origin \notin DOMAIN state.inputs

\* receive with a conjunction that answers the pulse it is handed alone
ReceiveForgetful(state, origin, high) ==
    CASE state.kind = "FlipFlop" ->
            IF high THEN [state |-> state, pulse |-> <<>>]
            ELSE [state |-> [state EXCEPT !.on = ~state.on], pulse |-> <<~state.on>>]
      [] state.kind = "Conjunction" ->
            [state |-> [state EXCEPT !.inputs = [state.inputs EXCEPT ![origin] = high]],
             pulse |-> <<~high>>]
      [] OTHER -> [state |-> state, pulse |-> <<high>>]

\* State::receive: the state after the pulse and the pulse sent on, <<>>
\* for None
receive(state, origin, high) ==
    CASE state.kind = "FlipFlop" ->
            IF high THEN [state |-> state, pulse |-> <<>>]
            ELSE [state |-> [state EXCEPT !.on = ~state.on], pulse |-> <<~state.on>>]
      [] state.kind = "Conjunction" ->
            LET inputs == [state.inputs EXCEPT ![origin] = high]
            IN  [state |-> [state EXCEPT !.inputs = inputs],
                 pulse |-> IF \A i \in DOMAIN inputs : inputs[i]
                           THEN <<FALSE>> ELSE <<TRUE>>]
      [] OTHER -> [state |-> state, pulse |-> <<high>>]

\* Extend sending to the last destination first
ExtendReversed(ms, source, pulse) ==
    LET destinations == ModuleNamed(ms, source).destinations
    IN  [i \in 1 .. Len(destinations) |->
            <<source, destinations[Len(destinations) + 1 - i], pulse>>]

\* line 63: the pulses a module sends on, in the order of its destinations
Extend(ms, source, pulse) ==
    LET destinations == ModuleNamed(ms, source).destinations
    IN  [i \in 1 .. Len(destinations) |-> <<source, destinations[i], pulse>>]

Start20 ==
    /\ modules \in ModuleLists(DestinationLists)
    /\ button_presses \in 0 .. MaxPresses
    /\ states = <<>>
    /\ pulses = <<>>
    /\ highs = 0
    /\ lows = 0
    /\ press = 0
    /\ pc20 = "idle"
    /\ returned_20 = {}
    /\ cycles = <<>>
    /\ first_high = <<>>
    /\ ret20 = <<>>

Init20 ==
    Start20 /\ Idle17 /\ Idle05 /\ IdleNew /\ IdleGet /\ Idle14 /\ Idle15
    /\ Idle19 /\ Idle18 /\ Idle06

\* part_1 up to its loop, lines 52-54
Part1Enter_20 ==
    /\ pc20 = "idle"
    /\ states' = init(modules)
    /\ pulses' = <<>>
    /\ highs' = 0
    /\ lows' = 0
    /\ press' = 0
    /\ pc20' = "loop"
    /\ UNCHANGED <<modules, button_presses, returned_20>>
    /\ UNCHANGED varsRx
    /\ UNCHANGED others20

\* line 56: one more button press
PushButton ==
    /\ pc20 = "loop"
    /\ pulses = <<>>
    /\ press < button_presses
    /\ pulses' = <<<<"button", "broadcaster", FALSE>>>>
    /\ press' = press + 1
    /\ UNCHANGED <<modules, button_presses, states, highs, lows, pc20, returned_20>>
    /\ UNCHANGED varsRx
    /\ UNCHANGED others20

\* lines 58-64: the pulse at the front of the queue is counted and handled
HandlePulse ==
    /\ pc20 = "loop"
    /\ pulses # <<>>
    /\ WithinPulses
    /\ LET source == Head(pulses)[1]
           destination == Head(pulses)[2]
           high == Head(pulses)[3]
       IN  /\ highs' = IF high THEN highs + 1 ELSE highs
           /\ lows' = IF high THEN lows ELSE lows + 1
           /\ IF destination \in DOMAIN states
              THEN /\ ~ReceivePanics(states[destination], source)
                   /\ LET received == receive(states[destination], source, high)
                      IN  /\ states' = [states EXCEPT ![destination] = received.state]
                          /\ pulses' =
                                IF received.pulse = <<>> THEN Tail(pulses)
                                ELSE Tail(pulses)
                                     \o Extend(modules, destination, received.pulse[1])
              ELSE /\ states' = states
                   /\ pulses' = Tail(pulses)
    /\ UNCHANGED <<modules, button_presses, press, pc20, returned_20>>
    /\ UNCHANGED varsRx
    /\ UNCHANGED others20

\* line 162: a conjunction receives a pulse from a module it has no input for
HandlePulsePanics ==
    /\ pc20 = "loop"
    /\ pulses # <<>>
    /\ WithinPulses
    /\ Head(pulses)[2] \in DOMAIN states
    /\ ReceivePanics(states[Head(pulses)[2]], Head(pulses)[1])
    /\ highs' = IF Head(pulses)[3] THEN highs + 1 ELSE highs
    /\ lows' = IF Head(pulses)[3] THEN lows ELSE lows + 1
    /\ pulses' = Tail(pulses)
    /\ pc20' = "panicked"
    /\ UNCHANGED <<modules, button_presses, states, press, returned_20>>
    /\ UNCHANGED varsRx
    /\ UNCHANGED others20

\* line 67: the product of the counts
Part1Return_20 ==
    /\ pc20 = "loop"
    /\ pulses = <<>>
    /\ press = button_presses
    /\ returned_20' = returned_20 \cup {to_string(highs * lows)}
    /\ pc20' = "idle"
    /\ UNCHANGED <<modules, button_presses, states, pulses, highs, lows, press>>
    /\ UNCHANGED varsRx
    /\ UNCHANGED others20

Next20 ==
    \/ Part1Enter_20
    \/ PushButton
    \/ HandlePulse
    \/ HandlePulsePanics
    \/ Part1Return_20

Spec20 == Init20 /\ [][Next20]_vars

\* part_1 on the example configuration
InitExample20 ==
    /\ modules = ExampleModules20
    /\ button_presses = ButtonPresses
    /\ states = <<>>
    /\ pulses = <<>>
    /\ highs = 0
    /\ lows = 0
    /\ press = 0
    /\ pc20 = "idle"
    /\ returned_20 = {}
    /\ cycles = <<>>
    /\ first_high = <<>>
    /\ ret20 = <<>>
    /\ Idle17 /\ Idle05 /\ IdleNew /\ IdleGet /\ Idle14 /\ Idle15
    /\ Idle19 /\ Idle18 /\ Idle06

\* no conjunction of the example receives from a module it has no input for
NextExample20 ==
    \/ Part1Enter_20
    \/ PushButton
    \/ HandlePulse
    \/ Part1Return_20

SpecExample20 == InitExample20 /\ [][NextExample20]_vars

\* part_2: the configurations end with the conjunction zh that feeds rx, or
\* have no module feeding rx; the typed modules a, b and c have one
\* destination each
RxNames == {"a", "b", "c"}

RxModule(name, names) ==
    {<<>>} \cup {<<Module(name, <<d>>, t)>> :
                   d \in names, t \in {"FlipFlop", "Conjunction"}}

RxModuleLists(names) ==
    {<<Module("broadcaster", d, t)>> \o a \o b \o c \o zh :
       d \in SeqsUpTo(names, MaxDestinations) \ {<<>>},
       t \in {"Broadcaster", "Conjunction"},
       a \in RxModule("a", names \cup {"zh"}),
       b \in RxModule("b", names \cup {"zh"}),
       c \in RxModule("c", names \cup {"zh"}),
       zh \in {<<>>, <<Module("zh", <<"rx">>, "Conjunction")>>}}

\* line 71: the modules that list rx among their destinations, in order
FeedingRx(ms) == {i \in 1 .. Len(ms) : SeqContains(ms[i].destinations, "rx")}

\* line 71: .next().unwrap(), the first of them
FirstFeedingRx(ms) == ms[SetMin(FeedingRx(ms))]

\* line 72: the keys of cycles, the modules that list zh as a destination
CycleKeys(ms) == InputsOf(ms, FirstFeedingRx(ms).name)

\* the press in which a key of cycles first sent a high pulse, kept
InsertFirstOnly(cy, source, button_push) ==
    IF cy[source] = <<>> THEN [cy EXCEPT ![source] = <<button_push>>] ELSE cy

\* line 81: cycles.insert(source, Some(button_push))
Insert(cy, source, button_push) == [cy EXCEPT ![source] = <<button_push>>]

\* line 82: every value is Some
AllSome(cy) == \A name \in DOMAIN cy : cy[name] # <<>>

\* line 83: the product of the values
RECURSIVE ProductOf(_, _)
ProductOf(cy, names) ==
    IF names = {} THEN 1
    ELSE LET name == CHOOSE n \in names : TRUE
         IN  cy[name][1] * ProductOf(cy, names \ {name})

\* line 80: the pulse at the front is a high pulse of a key of cycles
Recorded == Head(pulses)[3] /\ Head(pulses)[1] \in DOMAIN cycles

InitRx20 ==
    /\ modules \in RxModuleLists(RxNames)
    /\ button_presses = 0
    /\ states = <<>>
    /\ pulses = <<>>
    /\ highs = 0
    /\ lows = 0
    /\ press = 0
    /\ pc20 = "idle"
    /\ returned_20 = {}
    /\ cycles = <<>>
    /\ first_high = <<>>
    /\ ret20 = <<>>
    /\ Idle17 /\ Idle05 /\ IdleNew /\ IdleGet /\ Idle14 /\ Idle15
    /\ Idle19 /\ Idle18 /\ Idle06

\* part_2 up to its loop, lines 71-75
Part2Enter_20 ==
    /\ pc20 = "idle"
    /\ FeedingRx(modules) # {}
    /\ cycles' = [name \in CycleKeys(modules) |-> <<>>]
    /\ first_high' = [name \in CycleKeys(modules) |-> <<>>]
    /\ states' = init(modules)
    /\ pulses' = <<>>
    /\ press' = 0
    /\ pc20' = "rx"
    /\ UNCHANGED <<modules, button_presses, highs, lows, returned_20, ret20>>
    /\ UNCHANGED others20

\* line 71: no module lists rx, .next() is None and unwrap panics
Part2NoRx_20 ==
    /\ pc20 = "idle"
    /\ FeedingRx(modules) = {}
    /\ pc20' = "panicked"
    /\ UNCHANGED <<modules, button_presses, states, pulses, highs, lows, press,
                   returned_20, varsRx>>
    /\ UNCHANGED others20

\* lines 76-78: one more button press; the loop has no end of its own and
\* is followed for MaxPresses presses
PushButtonRx ==
    /\ pc20 = "rx"
    /\ pulses = <<>>
    /\ press < MaxPresses
    /\ press' = press + 1
    /\ pulses' = <<<<"button", "broadcaster", FALSE>>>>
    /\ UNCHANGED <<modules, button_presses, states, highs, lows, pc20, returned_20,
                   varsRx>>
    /\ UNCHANGED others20

\* lines 80-84: the high pulse at the front completes cycles and part_2
\* returns the product
RecordAndReturn ==
    /\ pc20 = "rx"
    /\ pulses # <<>>
    /\ Recorded
    /\ LET source == Head(pulses)[1]
           inserted == Insert(cycles, source, press)
       IN  /\ AllSome(inserted)
           /\ cycles' = inserted
           /\ first_high' = InsertFirstOnly(first_high, source, press)
           /\ ret20' = to_string(ProductOf(inserted, DOMAIN inserted))
    /\ pulses' = Tail(pulses)
    /\ pc20' = "done"
    /\ UNCHANGED <<modules, button_presses, states, highs, lows, press, returned_20>>
    /\ UNCHANGED others20

\* lines 79-95: the pulse at the front is recorded if it is a high pulse of
\* a key of cycles, then handled
HandlePulseRx ==
    /\ pc20 = "rx"
    /\ pulses # <<>>
    /\ LET source == Head(pulses)[1]
           destination == Head(pulses)[2]
           high == Head(pulses)[3]
       IN  /\ IF Recorded
              THEN /\ ~AllSome(Insert(cycles, source, press))
                   /\ cycles' = Insert(cycles, source, press)
                   /\ first_high' = InsertFirstOnly(first_high, source, press)
              ELSE UNCHANGED <<cycles, first_high>>
           /\ IF destination \in DOMAIN states
              THEN /\ ~ReceivePanics(states[destination], source)
                   /\ LET received == receive(states[destination], source, high)
                      IN  /\ states' = [states EXCEPT ![destination] = received.state]
                          /\ pulses' =
                                IF received.pulse = <<>> THEN Tail(pulses)
                                ELSE Tail(pulses)
                                     \o Extend(modules, destination, received.pulse[1])
              ELSE /\ states' = states
                   /\ pulses' = Tail(pulses)
    /\ UNCHANGED <<modules, button_presses, highs, lows, press, pc20, returned_20,
                   ret20>>
    /\ UNCHANGED others20

\* line 162 reached from part_2: a conjunction receives a pulse from a
\* module it has no input for
HandlePulseRxPanics ==
    /\ pc20 = "rx"
    /\ pulses # <<>>
    /\ Recorded => ~AllSome(Insert(cycles, Head(pulses)[1], press))
    /\ Head(pulses)[2] \in DOMAIN states
    /\ ReceivePanics(states[Head(pulses)[2]], Head(pulses)[1])
    /\ IF Recorded
       THEN /\ cycles' = Insert(cycles, Head(pulses)[1], press)
            /\ first_high' = InsertFirstOnly(first_high, Head(pulses)[1], press)
       ELSE UNCHANGED <<cycles, first_high>>
    /\ pulses' = Tail(pulses)
    /\ pc20' = "panicked"
    /\ UNCHANGED <<modules, button_presses, states, highs, lows, press, returned_20,
                   ret20>>
    /\ UNCHANGED others20

NextRx20 ==
    \/ Part2Enter_20
    \/ Part2NoRx_20
    \/ PushButtonRx
    \/ RecordAndReturn
    \/ HandlePulseRx
    \/ HandlePulseRxPanics

SpecRx20 == InitRx20 /\ [][NextRx20]_vars

\* part_1 is about to return
AboutToReturn20 == pc20 = "loop" /\ pulses = <<>> /\ press = button_presses

\* C18: on the example configuration part_1 presses the button 1000 times,
\* counts 4250 low and 2750 high pulses and returns "11687500"; a pulse to
\* the untyped module output is counted and sends nothing on.
C18_ExamplePart1 ==
    /\ [](/\ AboutToReturn20
              => press = 1000 /\ lows = 4250 /\ highs = 2750
           /\ \A r \in returned_20 :
                  r = <<"1", "1", "6", "8", "7", "5", "0", "0">>)
    /\ [][(pulses # <<>> /\ Head(pulses)[2] = "output")
              => /\ pulses' = Tail(pulses)
                 /\ highs' + lows' = highs + lows + 1
                 /\ states' = states]_vars

\* C18 witness: a call on the example configuration has returned after
\* its 1000 presses.
C18_Witness ==
    /\ modules = ExampleModules20
    /\ returned_20 = {<<"1", "1", "6", "8", "7", "5", "0", "0">>}
    /\ press = 1000
    /\ lows = 4250
    /\ highs = 2750

\* C26 (as claimed): part_2 returns the product, over the modules that feed
\* the conjunction feeding rx, of the number of the first button press
\* during which that module sent a high pulse: the press recorded for a
\* feeder is not changed by later high pulses of the same feeder sent before
\* all feeders have been recorded.
C26_FirstPressProduct ==
    /\ pc20 \in {"rx", "done"} =>
            \A name \in DOMAIN cycles : cycles[name] = first_high[name]
    /\ pc20 = "done" => ret20 = to_string(ProductOf(first_high, DOMAIN first_high))

\* a step that handles the pulse at the front of the queue without a panic
HandlesFront ==
    /\ pc20 = "loop"
    /\ pc20' = "loop"
    /\ pulses # <<>>
    /\ highs' + lows' = highs + lows + 1

\* the pulses the step put on the queue, behind those that were waiting
Emitted == SubSeq(pulses', Len(pulses), Len(pulses'))

\* C27: pulses are handled first in, first out within one button press: the
\* pulses a module emits when it handles a pulse are appended, in the order
\* of its destination list, behind every pulse already queued; a flip-flop
\* receiving a high pulse changes no state and emits nothing; a conjunction
\* updates the remembered level of the sender before it decides what to
\* emit.
C27_FirstInFirstOut ==
    [][HandlesFront =>
        LET source == Head(pulses)[1]
            destination == Head(pulses)[2]
            high == Head(pulses)[3]
        IN  /\ Len(pulses') >= Len(pulses) - 1
            /\ SubSeq(pulses', 1, Len(pulses) - 1) = Tail(pulses)
            /\ Emitted # <<>> =>
                    LET destinations == ModuleNamed(modules, destination).destinations
                    IN  /\ Len(Emitted) = Len(destinations)
                        /\ \A i \in 1 .. Len(Emitted) :
                                /\ Emitted[i][1] = destination
                                /\ Emitted[i][2] = destinations[i]
                                /\ Emitted[i][3] = Emitted[1][3]
            /\ destination \notin DOMAIN states
                    => states' = states /\ Emitted = <<>>
            /\ destination \in DOMAIN states =>
                    /\ \A name \in DOMAIN states \ {destination} :
                            states'[name] = states[name]
                    /\ (states[destination].kind = "FlipFlop" /\ high)
                            => states' = states /\ Emitted = <<>>
                    /\ (states[destination].kind = "FlipFlop" /\ ~high)
                            => /\ states'[destination].on = ~states[destination].on
                               /\ Emitted # <<>>
                               /\ Emitted[1][3] = states'[destination].on
                    /\ states[destination].kind = "Conjunction"
                            => /\ states'[destination].inputs[source] = high
                               /\ \A origin \in DOMAIN states[destination].inputs
                                        \ {source} :
                                      states'[destination].inputs[origin]
                                        = states[destination].inputs[origin]
                               /\ Emitted # <<>>
                               /\ Emitted[1][3]
                                    = ~(\A origin \in DOMAIN states'[destination].inputs :
                                            states'[destination].inputs[origin])
                    /\ states[destination].kind = "Broadcaster"
                            => states' = states /\ Emitted # <<>> /\ Emitted[1][3] = high
    ]_vars

\* C27 witness: the two pulses a conjunction with two destinations has just
\* sent wait, in the order of its destination list, behind a pulse sent
\* earlier by another module, the conjunction remembering a high input (the
\* sender's) and a low one
C27_Witness ==
    /\ pc20 = "loop"
    /\ Len(pulses) >= 3
    /\ LET last == pulses[Len(pulses)]
           before == pulses[Len(pulses) - 1]
           sender == last[1]
       IN  /\ sender \in DOMAIN states
           /\ states[sender].kind = "Conjunction"
           /\ before[1] = sender
           /\ ModuleNamed(modules, sender).destinations = <<before[2], last[2]>>
           /\ before[2] # last[2]
           /\ pulses[1][1] # sender
           /\ \E origin \in DOMAIN states[sender].inputs :
                    states[sender].inputs[origin]
           /\ \E origin \in DOMAIN states[sender].inputs :
                    ~states[sender].inputs[origin]
           /\ last[3]

----------------------------------------------------------------------------
(* Bounds of the day 15 model *)

MaxSteps == 4       \* longest list of steps

----------------------------------------------------------------------------
(* Day 15 *)

BoxCount == 256

\* the bytes of the characters the steps are written with
Byte(c) ==
    CASE c = "a" -> 97
      [] c = "b" -> 98
      [] c = "h" -> 104
      [] c = "i" -> 105
      [] c = "y" -> 121
      [] c = "=" -> 61
      [] c = "-" -> 45
      [] c = "1" -> 49
      [] c = "2" -> 50
      [] OTHER -> 120

\* hash: fold of acc.wrapping_add(c).wrapping_mul(17) over u8
RECURSIVE HashFrom(_, _)
HashFrom(acc, string) ==
    IF string = <<>> THEN acc
    ELSE HashFrom((((acc + Byte(Head(string))) % 256) * 17) % 256, Tail(string))

hash(string) == HashFrom(0, string)

\* the steps of the model: insertions and removals on labels of one box
\* ("a", "ih", "hy") and of another ("b"), a step that is neither, and an
\* insertion whose focal length is no number
StepTexts ==
    { <<"a", "=", "1">>, <<"a", "=", "2">>, <<"a", "-">>,
      <<"i", "h", "=", "1">>, <<"i", "h", "-">>, <<"h", "y", "=", "2">>,
      <<"b", "=", "2">>, <<"a">>, <<"a", "=", "x">> }

\* str::strip_suffix("-"): <<label>> or <<>> for None
strip_suffix(step) ==
    IF step # <<>> /\ step[Len(step)] = "-"
    THEN <<SubSeq(step, 1, Len(step) - 1)>>
    ELSE <<>>

\* str::split_once("="): <<label, focal_length>> at the first "=", <<>> for None
split_once(step) ==
    IF \E i \in 1 .. Len(step) : step[i] = "="
    THEN LET at == CHOOSE i \in 1 .. Len(step) :
                      /\ step[i] = "="
                      /\ \A j \in 1 .. i - 1 : step[j] # "="
         IN  <<SubSeq(step, 1, at - 1), SubSeq(step, at + 1, Len(step))>>
    ELSE <<>>

IsNumber(text) ==
    /\ text # <<>>
    /\ \A i \in 1 .. Len(text) : text[i] \in {"0", "1", "2", "3", "4", "5", "6", "7", "8", "9"}

\* str::parse::<usize> of a text of digits
RECURSIVE ParseUsize(_)
ParseUsize(text) ==
    IF text = <<>> THEN 0
    ELSE ParseUsize(SubSeq(text, 1, Len(text) - 1)) * 10 + (Byte(text[Len(text)]) - 48)

\* Iterator::position of the label in the lenses, 0 for None
LensPosition(lenses, label) ==
    IF \E i \in 1 .. Len(lenses) : lenses[i][1] = label
    THEN CHOOSE i \in 1 .. Len(lenses) :
            /\ lenses[i][1] = label
            /\ \A j \in 1 .. i - 1 : lenses[j][1] # label
    ELSE 0

\* Box::remove_lens
remove_lens(lenses, label) ==
    LET at == LensPosition(lenses, label)
    IN  IF at = 0 THEN lenses
        ELSE SubSeq(lenses, 1, at - 1) \o SubSeq(lenses, at + 1, Len(lenses))

\* add_lens that pushes the lens whether or not the label is there
AddLensAtEnd(lenses, label, focal_length) ==
    Append(lenses, <<label, focal_length>>)

\* Box::add_lens
add_lens(lenses, label, focal_length) ==
    LET at == LensPosition(lenses, label)
    IN  IF at = 0 THEN Append(lenses, <<label, focal_length>>)
        ELSE [lenses EXCEPT ![at] = <<label, focal_length>>]

\* Box::get_total_focusing_power
RECURSIVE get_total_focusing_power(_)
get_total_focusing_power(lenses) ==
    IF lenses = <<>> THEN 0
    ELSE get_total_focusing_power(SubSeq(lenses, 1, Len(lenses) - 1))
         + Len(lenses) * lenses[Len(lenses)][2]

\* part_2, lines 53-56: the sum over the boxes
RECURSIVE TotalPower(_, _)
TotalPower(bs, i) ==
    IF i >= BoxCount THEN 0
    ELSE (i + 1) * get_total_focusing_power(bs[i]) + TotalPower(bs, i + 1)

\* part_1: the sum of the hashes of the steps
RECURSIVE HashSum(_)
HashSum(ss) ==
    IF ss = <<>> THEN 0 ELSE hash(Head(ss)) + HashSum(Tail(ss))

\* part_2, lines 40-43: 256 boxes without lenses
NewBoxes == [i \in 0 .. BoxCount - 1 |-> <<>>]

\* the focal length of the step cannot be parsed
StepPanics(step) ==
    /\ strip_suffix(step) = <<>>
    /\ split_once(step) # <<>>
    /\ ~IsNumber(split_once(step)[2])

\* the closure of for_each, lines 46-50, on one step
ApplyStep(bs, step) ==
    IF strip_suffix(step) # <<>>
    THEN LET label == strip_suffix(step)[1]
         IN  [bs EXCEPT ![hash(label)] = remove_lens(@, label)]
    ELSE IF split_once(step) # <<>>
    THEN LET label == split_once(step)[1]
             focal_length == ParseUsize(split_once(step)[2])
         IN  [bs EXCEPT ![hash(label)] = add_lens(@, label, focal_length)]
    ELSE bs

Start15 ==
    /\ steps \in SeqsUpTo(StepTexts, MaxSteps) \ {<<>>}
    /\ boxes = <<>>
    /\ step_index = 0
    /\ pc15 = "idle"
    /\ returned_15_1 = {}
    /\ returned_15_2 = {}

Init15 ==
    Start15 /\ Idle17 /\ Idle05 /\ IdleNew /\ IdleGet /\ Idle14 /\ Idle20
    /\ Idle19 /\ Idle18 /\ Idle06

\* part_1: runs to its end and returns the sum
Part1_15 ==
    /\ pc15 = "idle"
    /\ returned_15_1' = returned_15_1 \cup {to_string(HashSum(steps))}
    /\ UNCHANGED <<steps, boxes, step_index, pc15, returned_15_2>>
    /\ UNCHANGED others15

\* part_2 up to the for_each
Part2Enter_15 ==
    /\ pc15 = "idle"
    /\ boxes' = NewBoxes
    /\ step_index' = 0
    /\ pc15' = "steps"
    /\ UNCHANGED <<steps, returned_15_1, returned_15_2>>
    /\ UNCHANGED others15

\* the closure of for_each handles the next step
Part2Step_15 ==
    /\ pc15 = "steps"
    /\ step_index < Len(steps)
    /\ ~StepPanics(steps[step_index + 1])
    /\ boxes' = ApplyStep(boxes, steps[step_index + 1])
    /\ step_index' = step_index + 1
    /\ UNCHANGED <<steps, pc15, returned_15_1, returned_15_2>>
    /\ UNCHANGED others15

\* line 49: the unwrap of focal_length.parse() on an Err
Part2StepPanics_15 ==
    /\ pc15 = "steps"
    /\ step_index < Len(steps)
    /\ StepPanics(steps[step_index + 1])
    /\ pc15' = "panicked"
    /\ UNCHANGED <<steps, boxes, step_index, returned_15_1, returned_15_2>>
    /\ UNCHANGED others15

\* lines 53-57: the total focusing power
Part2Return_15 ==
    /\ pc15 = "steps"
    /\ step_index = Len(steps)
    /\ returned_15_2' = returned_15_2 \cup {to_string(TotalPower(boxes, 0))}
    /\ pc15' = "idle"
    /\ UNCHANGED <<steps, boxes, step_index, returned_15_1>>
    /\ UNCHANGED others15

Next15 ==
    \/ Part1_15
    \/ Part2Enter_15
    \/ Part2Step_15
    \/ Part2StepPanics_15
    \/ Part2Return_15

Spec15 == Init15 /\ [][Next15]_vars

\* the lenses of a box without the lens of the label, in their order
WithoutLabel(lenses, label) ==
    LET Other(lens) == lens[1] # label
    IN  SelectSeq(lenses, Other)

\* every lens lies in the box of its label's hash, and no box holds a
\* label twice
LabelsInPlace ==
    \A i \in DOMAIN boxes :
        \A k \in 1 .. Len(boxes[i]) :
            /\ hash(boxes[i][k][1]) = i
            /\ \A j \in 1 .. Len(boxes[i]) : boxes[i][j][1] = boxes[i][k][1] => j = k

\* what the step does to the boxes
StepEffect(step) ==
    LET removal == step # <<>> /\ step[Len(step)] = "-"
        label == IF removal THEN strip_suffix(step)[1]
                 ELSE IF split_once(step) # <<>> THEN split_once(step)[1]
                 ELSE <<>>
        box == hash(label)
        held == \E k \in 1 .. Len(boxes[box]) : boxes[box][k][1] = label
    IN  IF removal
        THEN /\ boxes'[box] = WithoutLabel(boxes[box], label)
             /\ ~held => boxes'[box] = boxes[box]
             /\ \A i \in DOMAIN boxes : i # box => boxes'[i] = boxes[i]
        ELSE IF split_once(step) # <<>>
        THEN LET lens == <<label, ParseUsize(split_once(step)[2])>>
             IN  /\ held =>
                       /\ Len(boxes'[box]) = Len(boxes[box])
                       /\ \A k \in 1 .. Len(boxes[box]) :
                              boxes'[box][k] = IF boxes[box][k][1] = label
                                               THEN lens ELSE boxes[box][k]
                 /\ ~held => boxes'[box] = Append(boxes[box], lens)
                 /\ \A i \in DOMAIN boxes : i # box => boxes'[i] = boxes[i]
        ELSE boxes' = boxes

\* C19: over the steps of part_2 each label is held at most once over all
\* 256 boxes and only in box hash(label); `label=n` replaces the lens of the
\* label in its slot or appends it at the end of the box, `label-` removes
\* it keeping the order of the others or does nothing when it is absent,
\* and no step touches any other box.
C19_LensBoxes ==
    /\ [](LabelsInPlace /\ (pc15 = "steps" => DOMAIN boxes = 0 .. BoxCount - 1))
    /\ [][step_index' = step_index + 1 => StepEffect(steps[step_index + 1])]_vars

\* C19 witness: box 113 held three lenses and the second was removed; the
\* other two kept their order and box 130 was not involved.
C19_Witness ==
    /\ pc15 = "steps"
    /\ step_index = 4
    /\ steps[4] = <<"i", "h", "-">>
    /\ boxes[113] = << <<<<"a">>, 1>>, <<<<"h", "y">>, 2>> >>
    /\ boxes[130] = <<>>

----------------------------------------------------------------------------
(* Calls of part_1 and part_2 on one Puzzle: days 14, 15 and 20 *)

InitParts == Init14 \/ Init20 \/ Init15

NextParts == Next14 \/ Next20 \/ Next15

SpecParts == InitParts /\ [][NextParts]_vars

\* what the day 14 calls have returned and are about to return
Repeatable14 ==
    /\ Cardinality(returned_1) <= 1
    /\ Cardinality(returned_2) <= 1
    /\ (pc14 = "exit" /\ returned_2 # {})
           => to_string(get_north_load(positions, Len(lines))) \in returned_2
    /\ (pc14 = "loop" /\ cycle = 0) => positions = PositionsFrom(lines, 0)

\* what the day 20 calls have returned and are about to return
Repeatable20 ==
    /\ Cardinality(returned_20) <= 1
    /\ (pc20 = "loop" /\ pulses = <<>> /\ press = button_presses /\ returned_20 # {})
           => to_string(highs * lows) \in returned_20

\* what the day 15 calls have returned and are about to return
Repeatable15 ==
    /\ Cardinality(returned_15_1) <= 1
    /\ Cardinality(returned_15_2) <= 1
    /\ (pc15 = "steps" /\ step_index = Len(steps) /\ returned_15_2 # {})
           => to_string(TotalPower(boxes, 0)) \in returned_15_2

----------------------------------------------------------------------------
(***************************************************************************)
(* Day 19: part_2 sends ranges of parts through the workflows.  A PartRange *)
(* holds one half-open Range<u32> per category.  The ratings run over      *)
(* 1 .. MaxRating instead of 1 .. 4000.                                    *)
(***************************************************************************)
MaxRating == 2

\* the conditional rules of workflow "in" and of workflow "b"
MaxConditions == 2

Max2(a, b) == IF a >= b THEN a ELSE b

CategoryNames == {"extremely_cool_looking", "musical", "aerodynamic", "shiny"}

\* the categories the conditions of the inputs test
ConditionCategories == {"extremely_cool_looking", "musical"}

\* the limits of the inputs: below, inside and above 1 .. MaxRating
Limits == 0 .. MaxRating + 1

\* std::ops::Range<u32>, start..end
OpsRange(start, end) == [start |-> start, end |-> end]

\* Range::is_empty: !(start < end)
RangeIsEmpty(range) == ~(range.start < range.end)

NoCondition == [none |-> TRUE]

Conditions ==
    [category : ConditionCategories, is_lower_limit : BOOLEAN, limit : Limits]

Rule(condition, destination) ==
    [condition |-> condition, destination |-> destination]

\* the rule lists of a workflow: conditional rules, then one rule without
\* a condition
RuleLists(destinations, n) ==
    {rules \o <<Rule(NoCondition, last)>> :
        rules \in SeqsUpTo({Rule(c, d) : c \in Conditions, d \in destinations}, n),
        last \in destinations}

\* acyclic workflow sets with at most n conditional rules in a workflow:
\* "in" may send to "b", "b" sends to A or R only
WorkflowSets(n) ==
    {[name \in {"in", "b"} |-> IF name = "in" THEN in_rules ELSE b_rules] :
        in_rules \in RuleLists({"A", "R", "b"}, n),
        b_rules \in RuleLists({"A", "R"}, n - 1)}

\* part_2, lines 97-102
StartRange ==
    [category \in CategoryNames |-> OpsRange(1, MaxRating + 1)]

\* PartRange::empty
EmptyPartRange == [category \in CategoryNames |-> OpsRange(0, 0)]

\* PartRange::is_empty
is_empty(part_range) ==
    \E category \in CategoryNames : RangeIsEmpty(part_range[category])

\* fn split: <<matched, excluded>>; neither bound is checked against the
\* other, so a limit outside the range gives a range with end < start
split(range, is_lower_limit, limit) ==
    IF is_lower_limit
    THEN <<OpsRange(Max2(range.start, limit + 1), range.end),
           OpsRange(range.start, Min2(range.end, limit + 1))>>
    ELSE <<OpsRange(range.start, Min2(range.end, limit)),
           OpsRange(Max2(range.start, limit), range.end)>>

\* Condition::split
ConditionSplit(condition, part_range) ==
    LET halves == split(part_range[condition.category],
                        condition.is_lower_limit, condition.limit)
    IN  <<[part_range EXCEPT ![condition.category] = halves[1]],
          [part_range EXCEPT ![condition.category] = halves[2]]>>

\* Rule::split
RuleSplit(rule, part_range) ==
    IF "none" \in DOMAIN rule.condition
    THEN <<part_range, EmptyPartRange>>
    ELSE ConditionSplit(rule.condition, part_range)

\* Workflow::send_range: the loop over the rules from rule i on
RECURSIVE SendRangeFrom(_, _, _, _)
SendRangeFrom(rules, i, current, send_ranges) ==
    IF i > Len(rules) \/ is_empty(current) THEN send_ranges
    ELSE LET halves == RuleSplit(rules[i], current)
         IN  SendRangeFrom(rules, i + 1, halves[2],
                 Append(send_ranges, <<rules[i].destination, halves[1]>>))

send_range(rules, start_range) == SendRangeFrom(rules, 1, start_range, <<>>)

\* a u64 kept as words * 2^32 + units, modulo 2^64
U64(words, units) == [words |-> words, units |-> units]

\* end - start in u32, as the release build computes it: modulo 2^32
WrappingDiff(range) ==
    U64(IF range.end < range.start THEN 1 ELSE 0, range.end - range.start)

\* u64 multiplication: the product of the two words parts is a multiple of
\* 2^64 and wraps away
Times(a, b) ==
    U64(a.words * b.units + b.words * a.units, a.units * b.units)

Plus(a, b) == U64(a.words + b.words, a.units + b.units)

\* PartRange::count takes end - start of a range with end < start
Underflows(part_range) ==
    \E category \in CategoryNames :
        part_range[category].end < part_range[category].start

\* PartRange::count
count(part_range) ==
    Times(Times(Times(WrappingDiff(part_range["extremely_cool_looking"]),
                      WrappingDiff(part_range["musical"])),
                WrappingDiff(part_range["aerodynamic"])),
          WrappingDiff(part_range["shiny"]))

\* the last five decimal digits of n
FiveDigits(n) ==
    <<DigitChar((n \div 10000) % 10), DigitChar((n \div 1000) % 10),
      DigitChar((n \div 100) % 10), DigitChar((n \div 10) % 10),
      DigitChar(n % 10)>>

\* u64::to_string of words * 2^32 + units, with 2^32 = 42949 * 10^5 + 67296
to_string_u64(n) ==
    IF n.words = 0 THEN to_string(n.units)
    ELSE LET low == n.words * 67296 + n.units
         IN  to_string(n.words * 42949 + low \div 100000)
                 \o FiveDigits(low % 100000)

Start19 ==
    /\ workflows \in WorkflowSets(MaxConditions)
    /\ current_ranges = <<>>
    /\ total = U64(0, 0)
    /\ pc19 = "idle"
    /\ ret19 = <<>>

Init19 ==
    /\ Start19
    /\ Idle17 /\ Idle05 /\ IdleNew /\ IdleGet /\ Idle14 /\ Idle20 /\ Idle15
    /\ Idle18 /\ Idle06

\* part_2, lines 97-104
Part2Enter_19 ==
    /\ pc19 = "idle"
    /\ current_ranges' = <<<<"in", StartRange>>>>
    /\ total' = U64(0, 0)
    /\ pc19' = "loop"
    /\ UNCHANGED <<workflows, ret19>>
    /\ UNCHANGED others19

\* line 107: a range sent to R is dropped
PopRejected ==
    /\ pc19 = "loop"
    /\ current_ranges # <<>>
    /\ Top(current_ranges)[1] = "R"
    /\ current_ranges' = Pop(current_ranges)
    /\ UNCHANGED <<workflows, total, pc19, ret19>>
    /\ UNCHANGED others19

\* line 108: a range sent to A is counted
PopAccepted ==
    /\ pc19 = "loop"
    /\ current_ranges # <<>>
    /\ Top(current_ranges)[1] = "A"
    /\ ~Underflows(Top(current_ranges)[2])
    /\ total' = Plus(total, count(Top(current_ranges)[2]))
    /\ current_ranges' = Pop(current_ranges)
    /\ UNCHANGED <<workflows, pc19, ret19>>
    /\ UNCHANGED others19

\* line 108, overflow checks on: end - start panics
\* ("attempt to subtract with overflow")
PopAcceptedPanics ==
    /\ pc19 = "loop"
    /\ current_ranges # <<>>
    /\ Top(current_ranges)[1] = "A"
    /\ Underflows(Top(current_ranges)[2])
    /\ pc19' = "panicked"
    /\ UNCHANGED <<workflows, current_ranges, total, ret19>>
    /\ UNCHANGED others19

\* line 108, overflow checks off: end - start wraps
PopAcceptedWraps ==
    /\ pc19 = "loop"
    /\ current_ranges # <<>>
    /\ Top(current_ranges)[1] = "A"
    /\ Underflows(Top(current_ranges)[2])
    /\ total' = Plus(total, count(Top(current_ranges)[2]))
    /\ current_ranges' = Pop(current_ranges)
    /\ UNCHANGED <<workflows, pc19, ret19>>
    /\ UNCHANGED others19

\* line 109: a range sent to a workflow is split by its rules
PopSend ==
    /\ pc19 = "loop"
    /\ current_ranges # <<>>
    /\ Top(current_ranges)[1] \notin {"A", "R"}
    /\ current_ranges' =
           Pop(current_ranges)
               \o send_range(workflows[Top(current_ranges)[1]],
                             Top(current_ranges)[2])
    /\ UNCHANGED <<workflows, total, pc19, ret19>>
    /\ UNCHANGED others19

\* line 113
Part2Return_19 ==
    /\ pc19 = "loop"
    /\ current_ranges = <<>>
    /\ ret19' = to_string_u64(total)
    /\ pc19' = "done"
    /\ UNCHANGED <<workflows, current_ranges, total>>
    /\ UNCHANGED others19

Next19 ==
    \/ Part2Enter_19
    \/ PopRejected
    \/ PopAccepted
    \/ PopAcceptedPanics
    \/ PopAcceptedWraps
    \/ PopSend
    \/ Part2Return_19

Spec19 == Init19 /\ [][Next19]_vars

\* the parts with every rating in 1 .. MaxRating
Parts == [CategoryNames -> 1 .. MaxRating]

\* Condition::matches
matches(condition, part) ==
    IF condition.is_lower_limit
    THEN part[condition.category] > condition.limit
    ELSE part[condition.category] < condition.limit

\* Rule::matches
RuleMatches(rule, part) ==
    "none" \in DOMAIN rule.condition \/ matches(rule.condition, part)

\* Workflow::send: the destination of the first rule that matches
send(rules, part) ==
    rules[CHOOSE i \in 1 .. Len(rules) :
              /\ RuleMatches(rules[i], part)
              /\ \A j \in 1 .. i - 1 : ~RuleMatches(rules[j], part)].destination

\* Part::is_accepted
RECURSIVE is_accepted(_, _, _)
is_accepted(part, ws, current_workflow) ==
    IF current_workflow \in {"A", "R"} THEN current_workflow = "A"
    ELSE is_accepted(part, ws, send(ws[current_workflow], part))

\* the number of parts the workflows accept
AcceptedCount(ws) == Cardinality({part \in Parts : is_accepted(part, ws, "in")})

\* C16: part_2 returns exactly the number of parts the workflows accept, for
\* every acyclic workflow set whose rule lists end with a rule without a
\* condition, also when a limit lies outside the range that reaches its rule;
\* no call panics.
C16_CountsAccepted ==
    /\ pc19 # "panicked"
    /\ pc19 = "done" => ret19 = to_string(AcceptedCount(workflows))

\* part_2 is exact whenever no range with end < start was sent to A
C16_ExactWithoutUnderflow ==
    (pc19 = "done" /\ total.words = 0)
        => ret19 = to_string(AcceptedCount(workflows))

----------------------------------------------------------------------------
(***************************************************************************)
(* Day 18: part_1 calls compute_coverage on the instructions of the plan.  *)
(* The inputs are the closed loops of at most MaxCorners instructions of   *)
(* length at most MaxTrench that turn by a quarter at every corner and     *)
(* never touch themselves, from every corner and in both orientations,     *)
(* and the loop of the puzzle's example.                                   *)
(***************************************************************************)
MaxTrench == 3

MaxCorners == 8

Instruction(direction, length) == [direction |-> direction, length |-> length]

\* data/examples/day_18.txt, the first instruction of each line
ExamplePlan18 ==
    <<Instruction("Right", 6), Instruction("Down", 5), Instruction("Left", 2),
      Instruction("Down", 2), Instruction("Right", 2), Instruction("Down", 2),
      Instruction("Left", 5), Instruction("Up", 2), Instruction("Left", 1),
      Instruction("Up", 2), Instruction("Right", 2), Instruction("Up", 3),
      Instruction("Left", 2), Instruction("Up", 2)>>

SignedLengths == {n \in -MaxTrench .. MaxTrench : n # 0}

InstructionOf(vertical, n) ==
    Instruction(IF vertical THEN (IF n > 0 THEN "Down" ELSE "Up")
                ELSE (IF n > 0 THEN "Right" ELSE "Left"),
                IF n > 0 THEN n ELSE -n)

\* f[i] + f[i + 2] + ... up to Len(f)
RECURSIVE EverySecond(_, _)
EverySecond(f, i) ==
    IF i > Len(f) THEN 0 ELSE f[i] + EverySecond(f, i + 2)

\* the loop that starts with the moves f and closes with two more
LoopOf(vertical, f) ==
    [i \in 1 .. Len(f) + 2 |->
        InstructionOf(IF i % 2 = 1 THEN vertical ELSE ~vertical,
                      IF i <= Len(f) THEN f[i]
                      ELSE IF i % 2 = 1 THEN -EverySecond(f, 1)
                      ELSE -EverySecond(f, 2))]

\* get_vertices, lines 112-117: the move of one instruction
Move(instruction) ==
    CASE instruction.direction = "Up" -> <<-instruction.length, 0>>
      [] instruction.direction = "Down" -> <<instruction.length, 0>>
      [] instruction.direction = "Left" -> <<0, -instruction.length>>
      [] instruction.direction = "Right" -> <<0, instruction.length>>

\* get_vertices: the vertices of the instructions from i on
RECURSIVE VerticesFrom(_, _, _, _, _)
VerticesFrom(ins, i, row, col, direction) ==
    IF i > Len(ins) THEN <<>>
    ELSE <<[row |-> row, col |-> col, from |-> direction,
            to |-> ins[i].direction]>>
         \o VerticesFrom(ins, i + 1, row + Move(ins[i])[1],
                         col + Move(ins[i])[2], ins[i].direction)

get_vertices(ins) == VerticesFrom(ins, 1, 0, 0, ins[Len(ins)].direction)

\* compute_coverage, lines 125-127
Perimeter(ins) == SeqSum([i \in 1 .. Len(ins) |-> ins[i].length])

\* the elements of a BTreeSet in iteration order
RECURSIVE Ascending(_)
Ascending(set) ==
    IF set = {} THEN <<>>
    ELSE <<SetMin(set)>> \o Ascending(set \ {SetMin(set)})

\* compute_coverage, lines 138-140: the 1st with the 2nd column, the 3rd
\* with the 4th, ...
RECURSIVE PairedWidth(_, _)
PairedWidth(sorted, i) ==
    IF i + 1 > Len(sorted) THEN 0
    ELSE sorted[i + 1] - sorted[i] + PairedWidth(sorted, i + 2)

total_cols(set) == PairedWidth(Ascending(set), 1)

InsertsGoingDown(vertex) == vertex.to = "Down"

\* compute_coverage, line 145
Inserts(vertex) == vertex.from = "Up" \/ vertex.to = "Down"

\* compute_coverage, line 148
Removes(vertex) == vertex.from = "Down" \/ vertex.to = "Up"

\* the points of the trench, dug from <<row, col>> by the instructions
\* from i on
RECURSIVE Dig(_, _, _, _)
Dig(ins, i, row, col) ==
    IF i > Len(ins) THEN {}
    ELSE LET length == ins[i].length
             dr == Move(ins[i])[1] \div length
             dc == Move(ins[i])[2] \div length
         IN  {<<row + k * dr, col + k * dc>> : k \in 1 .. length}
                 \cup Dig(ins, i + 1, row + length * dr, col + length * dc)

Trench(ins) == Dig(ins, 1, 0, 0)

\* the loop never touches itself
Simple(ins) == Cardinality(Trench(ins)) = Perimeter(ins)

QuarterTurns(ins) ==
    \A i \in 1 .. Len(ins) :
        (ins[i].direction \in {"Up", "Down"})
            # (ins[(i % Len(ins)) + 1].direction \in {"Up", "Down"})

\* the example and the loops of at most corners instructions
Plans(corners) ==
    {ExamplePlan18} \cup
    {ins \in {LoopOf(vertical, f) :
                  vertical \in BOOLEAN,
                  f \in UNION {[1 .. n -> SignedLengths] :
                                  n \in {k \in 2 .. corners - 2 : k % 2 = 0}}} :
        /\ \A i \in 1 .. Len(ins) : ins[i].length \in 1 .. MaxTrench
        /\ Simple(ins)}

Start18 ==
    /\ instructions \in Plans(MaxCorners)
    /\ vertices = <<>>
    /\ vertex_index = 0
    /\ cols = {}
    /\ last_vertex = 0
    /\ area = 0
    /\ pc18 = "idle"
    /\ ret18 = <<>>

Init18 ==
    /\ Start18
    /\ Idle17 /\ Idle05 /\ IdleNew /\ IdleGet /\ Idle14 /\ Idle20 /\ Idle15
    /\ Idle19 /\ Idle06

\* part_1 calls compute_coverage, lines 125-134
CoverageEnter ==
    /\ pc18 = "idle"
    /\ vertices' = SortByRowCol(get_vertices(instructions))
    /\ vertex_index' = 0
    /\ cols' = {}
    /\ last_vertex' = SortByRowCol(get_vertices(instructions))[1]
    /\ area' = 0
    /\ pc18' = "loop"
    /\ UNCHANGED <<instructions, ret18>>
    /\ UNCHANGED others18

\* compute_coverage, lines 136-151: one turn of the for loop
CoverageStep ==
    /\ pc18 = "loop"
    /\ vertex_index < Len(vertices)
    /\ LET vertex == vertices[vertex_index + 1]
           inserted == IF Inserts(vertex) THEN cols \cup {vertex.col} ELSE cols
       IN  /\ area' = IF vertex.row # last_vertex.row
                      THEN area + (vertex.row - last_vertex.row) * total_cols(cols)
                      ELSE area
           /\ last_vertex' = vertex
           /\ cols' = IF Removes(vertex) THEN inserted \ {vertex.col}
                      ELSE inserted
    /\ vertex_index' = vertex_index + 1
    /\ UNCHANGED <<instructions, vertices, pc18, ret18>>
    /\ UNCHANGED others18

\* compute_coverage, line 153, and part_1, line 49
CoverageReturn ==
    /\ pc18 = "loop"
    /\ vertex_index = Len(vertices)
    /\ ret18' = to_string(area + Perimeter(instructions) \div 2 + 1)
    /\ pc18' = "done"
    /\ UNCHANGED <<instructions, vertices, vertex_index, cols, last_vertex, area>>
    /\ UNCHANGED others18

Next18 ==
    \/ CoverageEnter
    \/ CoverageStep
    \/ CoverageReturn

Spec18 == Init18 /\ [][Next18]_vars

\* the unit edges of the trench that run between row r and row r + 1, each
\* as <<r, col>>
RECURSIVE VerticalEdges(_, _, _, _)
VerticalEdges(ins, i, row, col) ==
    IF i > Len(ins) THEN {}
    ELSE (CASE ins[i].direction = "Down" ->
                   {<<row + k, col>> : k \in 0 .. ins[i].length - 1}
            [] ins[i].direction = "Up" ->
                   {<<row - k, col>> : k \in 1 .. ins[i].length}
            [] OTHER -> {})
         \cup VerticalEdges(ins, i + 1, row + Move(ins[i])[1],
                            col + Move(ins[i])[2])

\* the lattice points the loop encloses: a point off the trench with an odd
\* number of trench edges to its left
Enclosed(ins) ==
    LET trench == Trench(ins)
        edges == VerticalEdges(ins, 1, 0, 0)
    IN  {p \in {q[1] : q \in trench} \X {q[2] : q \in trench} :
            /\ p \notin trench
            /\ Cardinality({e \in edges : e[1] = p[1] /\ e[2] < p[2]}) % 2 = 1}

\* the cells dug out: the trench and what it encloses
CellsCovered(ins) == Cardinality(Trench(ins)) + Cardinality(Enclosed(ins))

\* twice the signed area of the loop, positive when it runs clockwise
RECURSIVE Shoelace(_, _)
Shoelace(vs, i) ==
    IF i > Len(vs) THEN 0
    ELSE LET next == vs[(i % Len(vs)) + 1]
         IN  vs[i].col * next.row - next.col * vs[i].row + Shoelace(vs, i + 1)

Clockwise(ins) == Shoelace(get_vertices(ins), 1) > 0

\* C17: for every simple closed rectilinear loop with a quarter turn at each
\* corner, clockwise or counter-clockwise and from any starting corner,
\* compute_coverage returns the number of lattice cells the trench and its
\* interior cover (the enclosed area plus half the perimeter plus one); the
\* example plan gives "62".
C17_CoverageIsCells ==
    pc18 = "done"
        => /\ QuarterTurns(instructions) /\ Simple(instructions)
           /\ ret18 = to_string(CellsCovered(instructions))
           /\ instructions = ExamplePlan18 => ret18 = <<"6", "2">>

\* C17 witness: a counter-clockwise loop of eight instructions, started at a
\* corner that is not the first of the sweep, has been measured.
C17_Witness ==
    /\ pc18 = "done"
    /\ Len(instructions) = 8
    /\ ~Clockwise(instructions)
    /\ vertices[1].row # 0
    /\ ret18 = to_string(CellsCovered(instructions))

----------------------------------------------------------------------------
(***************************************************************************)
(* Day 6: part_1 multiplies get_number_of_ways over the races.  The f64    *)
(* values of get_number_of_ways are whole numbers or square roots of whole *)
(* numbers; the model keeps the radicand and rounds exactly, which is what *)
(* f64 does at the sizes modelled.                                         *)
(***************************************************************************)
MaxTime == 8

MaxDistance == 17

MaxRaces == 2

\* the test new(), lines 71-76
ExampleTimes == <<7, 15, 30>>

ExampleDistances == <<9, 40, 200>>

\* the least c with c * c >= n
CeilSqrt(n) == CHOOSE c \in 0 .. n : c * c >= n /\ (c = 0 \/ (c - 1) * (c - 1) < n)

\* line 30: t2, the u32 division before the cast
T2(time) == time \div 2

\* line 32: t2.powf(2.) - d, the value delta is the square root of; delta is
\* NaN when it is negative
Radicand(time, distance) == T2(time) * T2(time) - distance

\* f64 as u32: NaN and negative values give 0
AsU32(x) == IF x < 0 THEN 0 ELSE x

\* line 33: floor(t2 - delta + 1) = t2 + 1 - ceil(delta)
Left(time, distance) ==
    IF Radicand(time, distance) < 0 THEN 0
    ELSE AsU32(T2(time) + 1 - CeilSqrt(Radicand(time, distance)))

\* line 34: ceil(t2 + delta - 1) = t2 - 1 + ceil(delta)
Right(time, distance) ==
    IF Radicand(time, distance) < 0 THEN 0
    ELSE AsU32(T2(time) - 1 + CeilSqrt(Radicand(time, distance)))

\* line 35: right - left in u32 underflows
WaysUnderflow(time, distance) == Right(time, distance) < Left(time, distance)

\* line 35: right - left + 1, modulo 2^32 when negative
get_number_of_ways(time, distance) ==
    Right(time, distance) - Left(time, distance) + 1

RaceLists ==
    {<<ExampleTimes, ExampleDistances>>} \cup
    {<<ts, ds>> \in (SeqsUpTo(0 .. MaxTime, MaxRaces) \ {<<>>})
                    \X (SeqsUpTo(0 .. MaxDistance, MaxRaces) \ {<<>>}) :
        Len(ts) = Len(ds)}

Start06 ==
    /\ \E input \in RaceLists : times = input[1] /\ distances = input[2]
    /\ race = 0
    /\ product = 1
    /\ pc6 = "idle"
    /\ ret6 = <<>>

Init06 ==
    /\ Start06
    /\ Idle17 /\ Idle05 /\ IdleNew /\ IdleGet /\ Idle14 /\ Idle20 /\ Idle15
    /\ Idle19 /\ Idle18

\* part_1, line 44
Part1Enter_06 ==
    /\ pc6 = "idle"
    /\ race' = 0
    /\ product' = 1
    /\ pc6' = "races"
    /\ UNCHANGED <<times, distances, ret6>>
    /\ UNCHANGED others06

\* lines 45-46: the ways of the next race are multiplied in
RaceWays ==
    /\ pc6 = "races"
    /\ race < Min2(Len(times), Len(distances))
    /\ ~WaysUnderflow(times[race + 1], distances[race + 1])
    /\ product' = product * get_number_of_ways(times[race + 1], distances[race + 1])
    /\ race' = race + 1
    /\ UNCHANGED <<times, distances, pc6, ret6>>
    /\ UNCHANGED others06

\* line 35, overflow checks on: right - left panics
\* ("attempt to subtract with overflow")
RaceWaysPanics ==
    /\ pc6 = "races"
    /\ race < Min2(Len(times), Len(distances))
    /\ WaysUnderflow(times[race + 1], distances[race + 1])
    /\ pc6' = "panicked"
    /\ UNCHANGED <<times, distances, race, product, ret6>>
    /\ UNCHANGED others06

\* line 35, overflow checks off: right - left + 1 wraps, and so does the
\* product; product is kept modulo 2^32 as a number above -2^31
RaceWaysWraps ==
    /\ pc6 = "races"
    /\ race < Min2(Len(times), Len(distances))
    /\ WaysUnderflow(times[race + 1], distances[race + 1])
    /\ product' = product * get_number_of_ways(times[race + 1], distances[race + 1])
    /\ race' = race + 1
    /\ UNCHANGED <<times, distances, pc6, ret6>>
    /\ UNCHANGED others06

\* line 47: u32::to_string of the product
Part1Return_06 ==
    /\ pc6 = "races"
    /\ race = Min2(Len(times), Len(distances))
    /\ ret6' = IF product >= 0 THEN to_string(product)
               ELSE to_string_u64(U64(1, product))
    /\ pc6' = "done"
    /\ UNCHANGED <<times, distances, race, product>>
    /\ UNCHANGED others06

Next06 ==
    \/ Part1Enter_06
    \/ RaceWays
    \/ RaceWaysPanics
    \/ RaceWaysWraps
    \/ Part1Return_06

Spec06 == Init06 /\ [][Next06]_vars

\* the hold times that beat the record
Ways(time, distance) ==
    Cardinality({h \in 0 .. time : h * (time - h) > distance})

RECURSIVE WaysProduct(_, _, _)
WaysProduct(ts, ds, i) ==
    IF i > Min2(Len(ts), Len(ds)) THEN 1
    ELSE Ways(ts[i], ds[i]) * WaysProduct(ts, ds, i + 1)

\* C20: get_number_of_ways(time, distance) is the number of integers h in
\* 0 ..= time with h * (time - h) > distance, for odd and even time, and no
\* u32 subtraction in it underflows; part_1 returns the product over the
\* races, "288" for the example races (7, 9), (15, 40), (30, 200).
C20_WaysCounted ==
    /\ pc6 # "panicked"
    /\ pc6 = "done" => ret6 = to_string(WaysProduct(times, distances, 1))
    /\ (pc6 = "done" /\ times = ExampleTimes /\ distances = ExampleDistances)
           => ret6 = <<"2", "8", "8">>

\* get_number_of_ways is right for an even time whose record can be beaten
C20_EvenBeatable ==
    \A i \in 1 .. Min2(race, Min2(Len(times), Len(distances))) :
        (times[i] % 2 = 0 /\ Ways(times[i], distances[i]) > 0)
            => /\ ~WaysUnderflow(times[i], distances[i])
               /\ get_number_of_ways(times[i], distances[i])
                      = Ways(times[i], distances[i])

====
